---- MODULE Spec2Model ----
(***************************************************************************)
(* FairCoin: an ERC20 ledger with a Merkle-gated claim and an embedded     *)
(* constant-product market maker (contract FairCoin, src/server/index.js   *)
(* lines 117-353), together with the offline Merkle tree builder           *)
(* (src/unnamed/part_001).                                                 *)
(*                                                                         *)
(* The contract's storage is the state; every external function is one     *)
(* action.  A function body is an operator from an execution context (the  *)
(* storage, the contract's native balance, the log of the transaction and  *)
(* the outcome so far) to the context after it.  A failed require marks    *)
(* the context reverted, and the calling action then restores the storage  *)
(* as the EVM does.  sellFair hands control to the seller in the middle of *)
(* its body (the native-value payout), so it is two steps, with the        *)
(* seller's callback between them.                                         *)
(***************************************************************************)
EXTENDS Integers, Sequences, FiniteSets, TLC

(***************************************************************************)
(* Bounds of the model.                                                    *)
(***************************************************************************)
\* One token in base units.  The source scales by 1e18.
WAD == 100
\* MAX_SUPPLY / CLAIM_AMOUNT: how many claims fit under the supply ceiling.
\* The source has 10^7.
MaxClaims == 2
\* Transactions in one behaviour.
MaxCalls == 3
\* Calls the seller makes back into the contract during one payout.
MaxNested == 1
\* block.timestamp of the calls.
BlockTime == 1
\* Largest amount and reserve the pricing functions are applied to on their own.
MaxQuote == 6
\* Largest value a replaced sibling of a proof takes (seven low bits).
MaxSibling == 127

(***************************************************************************)
(* Addresses.                                                              *)
(***************************************************************************)
ZERO == "0x0"
THIS == "this"
founder == "F"
Users == {founder, "A", "B"}
Addr == {ZERO, THIS} \cup Users

(***************************************************************************)
(* Program constants.                                                      *)
(***************************************************************************)
FEE_DENOMINATOR == 1000
CLAIM_AMOUNT == 100 * WAD
POOL_CUT == 5 * WAD
USER_CUT == 95 * WAD
MAX_SUPPLY == MaxClaims * CLAIM_AMOUNT

(***************************************************************************)
(* Hashing.  keccak256 is modelled as an injective function into the       *)
(* naturals: the hash of a packed address is odd, the hash of a pair of    *)
(* hashes is even (twice Cantor's pairing), so no two distinct inputs      *)
(* collide.  bytes32 values compare as unsigned integers.                  *)
(***************************************************************************)
AddrCode(a) ==
    CASE a = ZERO -> 0
      [] a = "A" -> 1
      [] a = "B" -> 4
      [] a = founder -> 3
      [] a = THIS -> 5

keccakAddress(a) == 2 * AddrCode(a) + 1

keccakPair(x, y) == (x + y) * (x + y + 1) + 2 * y

\* hashAddress of the tree builder: keccak256(solidityPacked(["address"], [a])).
hashAddress(a) == keccakAddress(a)

\* merkletreejs with sortPairs: the two children are sorted before hashing.
sortedPairHash(l, r) == IF l < r THEN keccakPair(l, r) ELSE keccakPair(r, l)

\* One layer up: neighbours are hashed together, an odd last node is carried.
nextLayer(layer) ==
    [i \in 1..((Len(layer) + 1) \div 2) |->
        IF 2 * i <= Len(layer)
        THEN sortedPairHash(layer[2 * i - 1], layer[2 * i])
        ELSE layer[2 * i - 1]]

RECURSIVE treeRoot(_)
treeRoot(layer) ==
    IF Len(layer) <= 1 THEN layer[1] ELSE treeRoot(nextLayer(layer))

\* getProof: at each layer the sibling of the node, when it has one.
RECURSIVE treeProof(_, _)
treeProof(layer, idx) ==
    IF Len(layer) <= 1 THEN << >>
    ELSE LET pairIndex == IF idx % 2 = 0 THEN idx - 1 ELSE idx + 1
             here == IF pairIndex <= Len(layer) THEN << layer[pairIndex] >> ELSE << >>
         IN  here \o treeProof(nextLayer(layer), (idx + 1) \div 2)

\* data/sample-accounts.json: the allowlist, in file order.
entries == << founder, "A", "B" >>

buildTree == [e \in 1..Len(entries) |-> hashAddress(entries[e])]

merkleRoot == treeRoot(buildTree)

proofs(a) ==
    LET idx == CHOOSE e \in 1..Len(entries) : entries[e] = a
    IN  treeProof(buildTree, idx)

(***************************************************************************)
(* State.                                                                  *)
(***************************************************************************)
VARIABLES
    totalSupply,    \* uint256 totalSupply
    _balances,      \* mapping(address => uint256)
    _allowances,    \* mapping(address => mapping(address => uint256)), [owner][spender]
    claimed,        \* mapping(address => bool)
    reserveFair,    \* cached FAIR reserve
    reserveEth,     \* cached ETH reserve
    _locked,        \* the reentrancy lock
    _paused,        \* Pausable's flag
    ethBalance,     \* address(this).balance
    events,         \* the records emitted by the current (or last) transaction
    last,           \* the last call: [op, caller, args, result]
    pc,             \* "idle", or "payout" while sellFair's payout call is running
    frame,          \* the suspended sellFair's locals, while pc = "payout"
    saved,          \* the storage when the suspended transaction began
    callsLeft,      \* transactions the behaviour may still make
    airdropJson,    \* the server's public/airdrop.json
    db,             \* the server's database file, server/airdrop.db
    request         \* the front end's fetchWithRetry call

storage == << totalSupply, _balances, _allowances, claimed, reserveFair,
              reserveEth, _locked, _paused, ethBalance >>

vars == << totalSupply, _balances, _allowances, claimed, reserveFair,
           reserveEth, _locked, _paused, ethBalance, events, last, pc, frame,
           saved, callsLeft, airdropJson, db, request >>

\* The files of the server.
server == << airdropJson, db >>

(***************************************************************************)
(* The eligibility server and the offline tree builder.                    *)
(***************************************************************************)
\* No public/airdrop.json.
NoAirdrop == [exists |-> FALSE, merkleRoot |-> 0, claims |-> << >>]

\* The database before its first seeding: no root row, no claims.
EmptyDb == [merkle_root |-> << >>, claims |-> {}]

\* main of scripts/buildMerkle.js on an address list: the root, and for each
\* entry its address with the proof of the first leaf of that address.
main(list) ==
    LET leaves == [e \in 1..Len(list) |-> hashAddress(list[e])]
        first(a) == CHOOSE e \in 1..Len(list) :
                       list[e] = a /\ \A d \in 1..(e - 1) : list[d] # a
    IN  [ exists |-> TRUE,
          merkleRoot |-> treeRoot(leaves),
          claims |-> [e \in 1..Len(list) |->
                        [address |-> list[e],
                         proof |-> treeProof(leaves, first(list[e]))]] ]

\* The claims transaction of initDb: the rows inserted one by one; address
\* is the primary key, so a second row of an address fails the transaction.
RECURSIVE insertClaims(_, _, _)
insertClaims(rows, claims, i) ==
    IF i > Len(claims) THEN [rows |-> rows, ok |-> TRUE]
    ELSE IF \E r \in rows : r.address = claims[i].address
    THEN [rows |-> rows, ok |-> FALSE]
    ELSE insertClaims(rows \cup {claims[i]}, claims, i + 1)

\* initDb: the tables are created if missing; the database is seeded from
\* airdrop.json only when it has no root row.  The root row is inserted
\* first, on its own; the claims are inserted in one transaction.
initDb(d, file) ==
    IF d.merkle_root # << >> THEN [db |-> d, result |-> "OK"]
    ELSE IF ~file.exists THEN [db |-> d, result |-> "Airdrop file not found"]
    ELSE LET d1 == [d EXCEPT !.merkle_root = << file.merkleRoot >>]
             tx == insertClaims(d1.claims, file.claims, 1)
         IN  IF tx.ok
             THEN [db |-> [d1 EXCEPT !.claims = tx.rows], result |-> "OK"]
             ELSE [db |-> d1, result |-> "SQLITE_CONSTRAINT_PRIMARYKEY"]

\* GET /api/eligibility?address=... for a well-formed address.
eligibility(d, address) ==
    IF d.merkle_root = << >> THEN [status |-> 500, error |-> "Root not set"]
    ELSE LET claimRows == {r \in d.claims : r.address = address}
         IN  [ status |-> 200,
               qualified |-> claimRows # {},
               address |-> address,
               merkleRoot |-> d.merkle_root[1],
               proof |-> IF claimRows = {} THEN << >>
                         ELSE (CHOOSE r \in claimRows : TRUE).proof ]

(***************************************************************************)
(* The front end's fetchWithRetry (public/app.js).  A call is a record:    *)
(* where it stands, its maxRetries, the loop index i, lastError, the       *)
(* outcomes of the attempts made so far, the delay of the pending timer,   *)
(* and the delays waited so far, in milliseconds.                          *)
(***************************************************************************)
\* The largest maxRetries a call is made with.
MaxRetries == 4

\* How an attempt of fetchWithTimeout ends: a response with ok status, a
\* response with another status, the abort at the timeout, a failed fetch.
Outcomes == {"ok", "notOk", "timeout", "networkError"}

RECURSIVE pow(_, _)
pow(base, exponent) == IF exponent = 0 THEN 1 ELSE base * pow(base, exponent - 1)

\* let lastError: undefined until an attempt fails.
Undefined == [name |-> "undefined", attempt |-> 0 - 1]

\* No call has been made.
NoRequest ==
    [ status |-> "idle", maxRetries |-> 0, i |-> 0, lastError |-> Undefined,
      log |-> << >>, delay |-> 0, delays |-> << >> ]

\* The loop is entered with i = 0; with maxRetries = 0 its body never runs
\* and lastError is thrown as it is.
fetchWithRetry(maxRetries) ==
    [ NoRequest EXCEPT !.maxRetries = maxRetries,
                       !.status = IF 0 < maxRetries THEN "attempt" ELSE "thrown" ]

\* The body of the loop keeping the error of the first failed attempt.
fetchAttempt_firstError(r, outcome) ==
    IF outcome = "ok"
    THEN [r EXCEPT !.status = "returned", !.log = Append(@, outcome)]
    ELSE LET r1 == [r EXCEPT !.log = Append(@, outcome),
                             !.lastError = IF @ = Undefined
                                           THEN [name |-> outcome, attempt |-> r.i]
                                           ELSE @]
         IN  IF r.i < r.maxRetries - 1
             THEN [r1 EXCEPT !.status = "waiting", !.delay = pow(2, r.i) * 1000]
             ELSE [r1 EXCEPT !.status = "thrown", !.i = @ + 1]

\* The body of the loop: one attempt.  An ok response is returned; a response
\* that is not ok, a timeout and a failed fetch are thrown and caught alike:
\* lastError is set, and a timer of 2^i seconds is started unless this was
\* the last round, after which lastError is thrown.
fetchAttempt(r, outcome) ==
    IF outcome = "ok"
    THEN [r EXCEPT !.status = "returned", !.log = Append(@, outcome)]
    ELSE LET r1 == [r EXCEPT !.log = Append(@, outcome),
                             !.lastError = [name |-> outcome, attempt |-> r.i]]
         IN  IF r.i < r.maxRetries - 1
             THEN [r1 EXCEPT !.status = "waiting", !.delay = pow(2, r.i) * 1000]
             ELSE [r1 EXCEPT !.status = "thrown", !.i = @ + 1]

\* The timer fires: the loop goes to its next round.
timerFired(r) ==
    [r EXCEPT !.status = "attempt", !.i = @ + 1,
              !.delays = Append(@, r.delay), !.delay = 0]

(***************************************************************************)
(* Execution contexts.                                                     *)
(***************************************************************************)
\* The storage as a record.
Snapshot ==
    [ totalSupply |-> totalSupply, _balances |-> _balances,
      _allowances |-> _allowances, claimed |-> claimed,
      reserveFair |-> reserveFair, reserveEth |-> reserveEth,
      _locked |-> _locked, _paused |-> _paused, ethBalance |-> ethBalance ]

\* The storage after construction: everything zero, not paused, not locked.
Constructed ==
    [ totalSupply |-> 0, _balances |-> [a \in Addr |-> 0],
      _allowances |-> [o \in Addr |-> [s \in Addr |-> 0]],
      claimed |-> [a \in Addr |-> FALSE],
      reserveFair |-> 0, reserveEth |-> 0,
      _locked |-> FALSE, _paused |-> FALSE, ethBalance |-> 0 ]

\* The context a call starts in: msg.value is already credited to the
\* contract; a top-level call starts a new transaction log.
Enter(value) ==
    [ totalSupply |-> totalSupply, _balances |-> _balances,
      _allowances |-> _allowances, claimed |-> claimed,
      reserveFair |-> reserveFair, reserveEth |-> reserveEth,
      _locked |-> _locked, _paused |-> _paused,
      ethBalance |-> ethBalance + value,
      events |-> IF pc = "idle" THEN << >> ELSE events,
      result |-> "OK", reverted |-> FALSE ]

\* require(cond, msg) at a point where the context is s.
Failed(s, msg) == [s EXCEPT !.result = msg, !.reverted = TRUE]

emit(s, e) == IF s.reverted THEN s ELSE [s EXCEPT !.events = Append(@, e)]

(***************************************************************************)
(* ERC20 logic.                                                            *)
(***************************************************************************)
\* _transfer with both balances computed from the values read at entry: a
\* transfer to oneself then credits without debiting.
_transfer_staleReads(s, from, to, amount) ==
    IF s.reverted THEN s
    ELSE IF to = ZERO THEN Failed(s, "ZERO_TO")
    ELSE IF ~(s._balances[from] >= amount) THEN Failed(s, "BALANCE")
    ELSE LET s1 == [s EXCEPT !._balances[from] = s._balances[from] - amount]
             s2 == [s1 EXCEPT !._balances[to] = s._balances[to] + amount]
         IN  emit(s2, << "Transfer", from, to, amount >>)

_transfer(s, from, to, amount) ==
    IF s.reverted THEN s
    ELSE IF to = ZERO THEN Failed(s, "ZERO_TO")
    ELSE IF ~(s._balances[from] >= amount) THEN Failed(s, "BALANCE")
    ELSE LET s1 == [s EXCEPT !._balances[from] = s._balances[from] - amount]
             s2 == [s1 EXCEPT !._balances[to] = @ + amount]
         IN  emit(s2, << "Transfer", from, to, amount >>)

\* _mint crediting the balance without counting it in totalSupply.
_mint_balanceOnly(s, to, amount) ==
    IF s.reverted THEN s
    ELSE IF to = ZERO THEN Failed(s, "ZERO_ADDRESS")
    ELSE IF ~(s.totalSupply + amount <= MAX_SUPPLY) THEN Failed(s, "MAX_SUPPLY")
    ELSE emit([s EXCEPT !._balances[to] = @ + amount], << "Transfer", ZERO, to, amount >>)

_mint(s, to, amount) ==
    IF s.reverted THEN s
    ELSE IF to = ZERO THEN Failed(s, "ZERO_ADDRESS")
    ELSE IF ~(s.totalSupply + amount <= MAX_SUPPLY) THEN Failed(s, "MAX_SUPPLY")
    ELSE LET s1 == [s EXCEPT !.totalSupply = @ + amount]
             s2 == [s1 EXCEPT !._balances[to] = @ + amount]
         IN  emit(s2, << "Transfer", ZERO, to, amount >>)

\* approve adding to the allowance.
approve_adds(s, sender, spender, amount) ==
    IF spender = ZERO THEN Failed(s, "ZERO_SPENDER")
    ELSE emit([s EXCEPT !._allowances[sender][spender] = @ + amount],
              << "Approval", sender, spender, amount >>)

approve(s, sender, spender, amount) ==
    IF spender = ZERO THEN Failed(s, "ZERO_SPENDER")
    ELSE emit([s EXCEPT !._allowances[sender][spender] = amount],
              << "Approval", sender, spender, amount >>)

\* transfer checking the balance before the recipient.
transfer_balanceFirst(s, sender, to, amount) ==
    IF s.reverted THEN s
    ELSE IF ~(s._balances[sender] >= amount) THEN Failed(s, "BALANCE")
    ELSE _transfer(s, sender, to, amount)

\* transferFrom leaving the allowance as it was.
transferFrom_noDecrement(s, sender, from, to, amount) ==
    LET allowed == s._allowances[from][sender]
    IN  IF ~(allowed >= amount) THEN Failed(s, "ALLOWANCE")
        ELSE _transfer(s, from, to, amount)

transfer(s, sender, to, amount) == _transfer(s, sender, to, amount)

\* transferFrom whose inner transfer reports failure instead of reverting:
\* the allowance stays decremented.
transferFrom_softFail(s, sender, from, to, amount) ==
    LET allowed == s._allowances[from][sender]
        s1 == [s EXCEPT !._allowances[from][sender] = allowed - amount]
        s2 == _transfer(s1, from, to, amount)
    IN  IF ~(allowed >= amount) THEN Failed(s, "ALLOWANCE")
        ELSE IF s2.reverted THEN [s1 EXCEPT !.result = s2.result]
        ELSE s2

\* transferFrom never looking at the allowance.
transferFrom_noAllowance(s, sender, from, to, amount) ==
    _transfer(s, from, to, amount)

\* transferFrom returning at once when from and to are the same account.
transferFrom_selfIsNoop(s, sender, from, to, amount) ==
    LET allowed == s._allowances[from][sender]
    IN  IF ~(allowed >= amount) THEN Failed(s, "ALLOWANCE")
        ELSE IF from = to THEN s
        ELSE _transfer([s EXCEPT !._allowances[from][sender] = allowed - amount],
                       from, to, amount)

transferFrom(s, sender, from, to, amount) ==
    LET allowed == s._allowances[from][sender]
    IN  IF ~(allowed >= amount) THEN Failed(s, "ALLOWANCE")
        ELSE _transfer([s EXCEPT !._allowances[from][sender] = allowed - amount],
                       from, to, amount)

(***************************************************************************)
(* Modifiers.                                                              *)
(***************************************************************************)
\* nonReentrant, before the body: require(!_locked); _locked = true.
\* nonReentrant without its require.
nonReentrantBefore_noCheck(s) == [s EXCEPT !._locked = TRUE]

nonReentrantBefore(s) ==
    IF s._locked THEN Failed(s, "REENTRANCY") ELSE [s EXCEPT !._locked = TRUE]

\* nonReentrant leaving the lock taken after the body.
nonReentrantAfter_keepsLock(s) == s

\* nonReentrant, after the body: _locked = false.
nonReentrantAfter(s) == IF s.reverted THEN s ELSE [s EXCEPT !._locked = FALSE]

\* Pausable.whenNotPaused.
\* whenNotPaused letting every call through.
whenNotPaused_off(s) == s

whenNotPaused(s) ==
    IF s.reverted THEN s
    ELSE IF s._paused THEN Failed(s, "EnforcedPause") ELSE s

(***************************************************************************)
(* Pause, by the founder only.                                             *)
(***************************************************************************)
\* pause open to every caller.
pause_anyone(s, sender) ==
    IF s._paused THEN Failed(s, "EnforcedPause")
    ELSE emit([s EXCEPT !._paused = TRUE], << "Paused", sender >>)

pause(s, sender) ==
    IF sender # founder THEN Failed(s, "NOT_FOUNDER")
    ELSE IF s._paused THEN Failed(s, "EnforcedPause")
    ELSE emit([s EXCEPT !._paused = TRUE], << "Paused", sender >>)

unpause(s, sender) ==
    IF sender # founder THEN Failed(s, "NOT_FOUNDER")
    ELSE IF ~s._paused THEN Failed(s, "ExpectedPause")
    ELSE emit([s EXCEPT !._paused = FALSE], << "Unpaused", sender >>)

(***************************************************************************)
(* Reserves.                                                               *)
(***************************************************************************)
\* _sync caching twice the native balance.
_sync_doubleEth(s) ==
    IF s.reverted THEN s
    ELSE LET s1 == [s EXCEPT !.reserveFair = s._balances[THIS]]
             s2 == [s1 EXCEPT !.reserveEth = 2 * s.ethBalance]
         IN  emit(s2, << "Sync", s2.reserveFair, s2.reserveEth >>)

_sync(s) ==
    IF s.reverted THEN s
    ELSE LET s1 == [s EXCEPT !.reserveFair = s._balances[THIS]]
             s2 == [s1 EXCEPT !.reserveEth = s.ethBalance]
         IN  emit(s2, << "Sync", s2.reserveFair, s2.reserveEth >>)

\* _getAmountOut rounding the quotient up.
_getAmountOut_roundUp(amountIn, reserveIn, reserveOut) ==
    IF amountIn = 0 \/ reserveIn = 0 \/ reserveOut = 0 THEN 0
    ELSE LET numerator == reserveOut * amountIn
             denominator == reserveIn + amountIn
         IN  (numerator + denominator - 1) \div denominator

\* amountOutConstantProduct computing the quotient form.
amountOutConstantProduct_quotient(amountIn, reserveIn, reserveOut) ==
    IF amountIn = 0 \/ reserveIn = 0 \/ reserveOut = 0 THEN 0
    ELSE (reserveOut * amountIn) \div (reserveIn + amountIn)

\* The test suite's reference price (src/unnamed/part_000).
amountOutConstantProduct(amountIn, reserveIn, reserveOut) ==
    IF amountIn = 0 \/ reserveIn = 0 \/ reserveOut = 0 THEN 0
    ELSE LET k == reserveIn * reserveOut
         IN  reserveOut - k \div (reserveIn + amountIn)

\* _getAmountOut at the spot price, the input not added to its reserve.
_getAmountOut_spotPrice(amountIn, reserveIn, reserveOut) ==
    IF amountIn = 0 \/ reserveIn = 0 \/ reserveOut = 0 THEN 0
    ELSE (reserveOut * amountIn) \div reserveIn

_getAmountOut(amountIn, reserveIn, reserveOut) ==
    IF amountIn = 0 \/ reserveIn = 0 \/ reserveOut = 0 THEN 0
    ELSE LET numerator == reserveOut * amountIn
             denominator == reserveIn + amountIn
         IN  numerator \div denominator

(***************************************************************************)
(* Merkle claiming.                                                        *)
(***************************************************************************)
RECURSIVE verifyFrom(_, _, _)
verifyFrom(proof, i, computed) ==
    IF i > Len(proof) THEN computed
    ELSE LET sibling == proof[i]
         IN  IF computed < sibling
             THEN verifyFrom(proof, i + 1, keccakPair(computed, sibling))
             ELSE verifyFrom(proof, i + 1, keccakPair(sibling, computed))

\* _verify hashing (computed, sibling) in the order given, without sorting.
RECURSIVE verifyUnsortedFrom(_, _, _)
verifyUnsortedFrom(proof, i, computed) ==
    IF i > Len(proof) THEN computed
    ELSE verifyUnsortedFrom(proof, i + 1, keccakPair(computed, proof[i]))

_verify_unsorted(proof, account) ==
    verifyUnsortedFrom(proof, 1, keccakAddress(account)) = merkleRoot

_verify(proof, account) ==
    LET leaf == keccakAddress(account)
    IN  verifyFrom(proof, 1, leaf) = merkleRoot

\* claim without the registry check.
claim_noRegistryCheck(s, sender, proof) ==
    LET s0 == whenNotPaused(nonReentrantBefore(s))
    IN  IF s0.reverted THEN s0
        ELSE IF ~_verify(proof, sender) THEN Failed(s0, "INVALID_PROOF")
        ELSE IF ~(s0.totalSupply + USER_CUT + POOL_CUT <= MAX_SUPPLY)
             THEN Failed(s0, "MAX_SUPPLY")
        ELSE LET s1 == [s0 EXCEPT !.claimed[sender] = TRUE]
                 s2 == _mint(s1, sender, USER_CUT)
                 s3 == _mint(s2, THIS, POOL_CUT)
                 s4 == _sync(s3)
                 s5 == emit(s4, << "Claimed", sender, USER_CUT, POOL_CUT >>)
             IN  nonReentrantAfter(s5)

\* claim minting the whole CLAIM_AMOUNT to the claimer, and the pool's cut on top.
claim_fullToUser(s, sender, proof) ==
    LET s0 == whenNotPaused(nonReentrantBefore(s))
    IN  IF s0.reverted THEN s0
        ELSE IF s0.claimed[sender] THEN Failed(s0, "ALREADY_CLAIMED")
        ELSE IF ~_verify(proof, sender) THEN Failed(s0, "INVALID_PROOF")
        ELSE IF ~(s0.totalSupply + CLAIM_AMOUNT + POOL_CUT <= MAX_SUPPLY)
             THEN Failed(s0, "MAX_SUPPLY")
        ELSE LET s1 == [s0 EXCEPT !.claimed[sender] = TRUE]
                 s2 == _mint(s1, sender, CLAIM_AMOUNT)
                 s3 == _mint(s2, THIS, POOL_CUT)
                 s4 == _sync(s3)
                 s5 == emit(s4, << "Claimed", sender, USER_CUT, POOL_CUT >>)
             IN  nonReentrantAfter(s5)

\* claim synchronizing before it mints the pool's share.
claim_syncBeforePoolMint(s, sender, proof) ==
    LET s0 == whenNotPaused(nonReentrantBefore(s))
    IN  IF s0.reverted THEN s0
        ELSE IF s0.claimed[sender] THEN Failed(s0, "ALREADY_CLAIMED")
        ELSE IF ~_verify(proof, sender) THEN Failed(s0, "INVALID_PROOF")
        ELSE IF ~(s0.totalSupply + USER_CUT + POOL_CUT <= MAX_SUPPLY)
             THEN Failed(s0, "MAX_SUPPLY")
        ELSE LET s1 == [s0 EXCEPT !.claimed[sender] = TRUE]
                 s2 == _mint(s1, sender, USER_CUT)
                 s3 == _sync(s2)
                 s4 == _mint(s3, THIS, POOL_CUT)
                 s5 == emit(s4, << "Claimed", sender, USER_CUT, POOL_CUT >>)
             IN  nonReentrantAfter(s5)

claim(s, sender, proof) ==
    LET s0 == whenNotPaused(nonReentrantBefore(s))
    IN  IF s0.reverted THEN s0
        ELSE IF s0.claimed[sender] THEN Failed(s0, "ALREADY_CLAIMED")
        ELSE IF ~_verify(proof, sender) THEN Failed(s0, "INVALID_PROOF")
        ELSE IF ~(s0.totalSupply + USER_CUT + POOL_CUT <= MAX_SUPPLY)
             THEN Failed(s0, "MAX_SUPPLY")
        ELSE LET s1 == [s0 EXCEPT !.claimed[sender] = TRUE]
                 s2 == _mint(s1, sender, USER_CUT)
                 s3 == _mint(s2, THIS, POOL_CUT)
                 s4 == _sync(s3)
                 s5 == emit(s4, << "Claimed", sender, USER_CUT, POOL_CUT >>)
             IN  nonReentrantAfter(s5)

(***************************************************************************)
(* AMM logic.  s already holds msg.value in ethBalance.                    *)
(***************************************************************************)
\* donate requiring both tokens and value.
donate_bothRequired(s, sender, fairAmount, value) ==
    LET s0 == nonReentrantBefore(s)
    IN  IF s0.reverted THEN s0
        ELSE IF ~(fairAmount > 0 /\ value > 0) THEN Failed(s0, "DONATE_ZERO")
        ELSE LET s1 == _transfer(s0, sender, THIS, fairAmount)
                 s2 == _sync(s1)
                 s3 == emit(s2, << "Donation", sender, fairAmount, value >>)
             IN  nonReentrantAfter(s3)

\* donate under whenNotPaused.
donate_whenNotPaused(s, sender, fairAmount, value) ==
    LET s0 == whenNotPaused(nonReentrantBefore(s))
    IN  IF s0.reverted THEN s0
        ELSE IF ~(fairAmount > 0 \/ value > 0) THEN Failed(s0, "DONATE_ZERO")
        ELSE LET s1 == IF fairAmount > 0
                       THEN _transfer(s0, sender, THIS, fairAmount)
                       ELSE s0
                 s2 == _sync(s1)
                 s3 == emit(s2, << "Donation", sender, fairAmount, value >>)
             IN  nonReentrantAfter(s3)

donate(s, sender, fairAmount, value) ==
    LET s0 == nonReentrantBefore(s)
    IN  IF s0.reverted THEN s0
        ELSE IF ~(fairAmount > 0 \/ value > 0) THEN Failed(s0, "DONATE_ZERO")
        ELSE LET s1 == IF fairAmount > 0
                       THEN _transfer(s0, sender, THIS, fairAmount)
                       ELSE s0
                 s2 == _sync(s1)
                 s3 == emit(s2, << "Donation", sender, fairAmount, value >>)
             IN  nonReentrantAfter(s3)

\* buyFair without its _sync.
buyFair_noSync(s, sender, minAmountOut, deadline, value) ==
    LET s0 == whenNotPaused(nonReentrantBefore(s))
        fairOut == _getAmountOut(value, s0.reserveEth, s0.reserveFair)
    IN  IF s0.reverted THEN s0
        ELSE IF ~(BlockTime <= deadline) THEN Failed(s0, "EXPIRED")
        ELSE IF ~(value > 0) THEN Failed(s0, "ZERO_IN")
        ELSE IF ~(fairOut > 0) THEN Failed(s0, "NO_LIQUIDITY")
        ELSE IF ~(fairOut >= minAmountOut) THEN Failed(s0, "SLIPPAGE_EXCEEDED")
        ELSE LET s1 == _transfer(s0, THIS, sender, fairOut)
                 s3 == emit(s1, << "Buy", sender, value, fairOut >>)
             IN  nonReentrantAfter(s3)

\* buyFair checking msg.value before the deadline.
buyFair_zeroInFirst(s, sender, minAmountOut, deadline, value) ==
    LET s0 == whenNotPaused(nonReentrantBefore(s))
        fairOut == _getAmountOut(value, s0.reserveEth, s0.reserveFair)
    IN  IF s0.reverted THEN s0
        ELSE IF ~(value > 0) THEN Failed(s0, "ZERO_IN")
        ELSE IF ~(BlockTime <= deadline) THEN Failed(s0, "EXPIRED")
        ELSE IF ~(fairOut > 0) THEN Failed(s0, "NO_LIQUIDITY")
        ELSE IF ~(fairOut >= minAmountOut) THEN Failed(s0, "SLIPPAGE_EXCEEDED")
        ELSE LET s1 == _transfer(s0, THIS, sender, fairOut)
                 s2 == _sync(s1)
                 s3 == emit(s2, << "Buy", sender, value, fairOut >>)
             IN  nonReentrantAfter(s3)

buyFair(s, sender, minAmountOut, deadline, value) ==
    LET s0 == whenNotPaused(nonReentrantBefore(s))
        fairOut == _getAmountOut(value, s0.reserveEth, s0.reserveFair)
    IN  IF s0.reverted THEN s0
        ELSE IF ~(BlockTime <= deadline) THEN Failed(s0, "EXPIRED")
        ELSE IF ~(value > 0) THEN Failed(s0, "ZERO_IN")
        ELSE IF ~(fairOut > 0) THEN Failed(s0, "NO_LIQUIDITY")
        ELSE IF ~(fairOut >= minAmountOut) THEN Failed(s0, "SLIPPAGE_EXCEEDED")
        ELSE LET s1 == _transfer(s0, THIS, sender, fairOut)
                 s2 == _sync(s1)
                 s3 == emit(s2, << "Buy", sender, value, fairOut >>)
             IN  nonReentrantAfter(s3)

\* The fee without its floor of 1.
sellFee_noFloor(fairAmount) == fairAmount \div FEE_DENOMINATOR

\* The fee of a sell at one hundredth of the amount.
sellFee_hundredth(fairAmount) ==
    LET fee == fairAmount \div 100
    IN  IF fee = 0 /\ fairAmount > 0 THEN 1 ELSE fee

\* The fee of a sell with a floor of 2 base units.
sellFee_floorTwo(fairAmount) ==
    LET fee == fairAmount \div FEE_DENOMINATOR
    IN  IF fee < 2 /\ fairAmount > 0 THEN 2 ELSE fee

\* The fee of a sell: fairAmount / FEE_DENOMINATOR, at least 1.
sellFee(fairAmount) ==
    LET fee == fairAmount \div FEE_DENOMINATOR
    IN  IF fee = 0 /\ fairAmount > 0 THEN 1 ELSE fee

\* The payout priced on the whole fairAmount, the fee not taken off.
sellEthOut_feeNotDeducted(s, fairAmount) ==
    _getAmountOut(fairAmount, s.reserveFair, s.reserveEth)

\* What a sell pays out, priced on the cached reserves.
sellEthOut(s, fairAmount) ==
    _getAmountOut(fairAmount - sellFee(fairAmount), s.reserveFair, s.reserveEth)

\* sellFair pricing before it takes the tokens.
sellFairBefore_quoteFirst(s, sender, fairAmount, minEthOut, deadline) ==
    LET s0 == whenNotPaused(nonReentrantBefore(s))
        fee == fairAmount \div FEE_DENOMINATOR
        ethOut == _getAmountOut(fairAmount - (IF fee = 0 /\ fairAmount > 0 THEN 1 ELSE fee),
                                s0.reserveFair, s0.reserveEth)
    IN  IF s0.reverted THEN s0
        ELSE IF ~(BlockTime <= deadline) THEN Failed(s0, "EXPIRED")
        ELSE IF ~(fairAmount > 0) THEN Failed(s0, "ZERO_IN")
        ELSE IF ~(ethOut > 0) THEN Failed(s0, "NO_LIQUIDITY")
        ELSE IF ~(ethOut >= minEthOut) THEN Failed(s0, "SLIPPAGE_EXCEEDED")
        ELSE IF ~(ethOut <= s0.ethBalance) THEN Failed(s0, "INSUFFICIENT_ETH")
        ELSE LET s1 == _transfer(s0, sender, THIS, fairAmount)
                 s2 == _transfer(s1, THIS, founder,
                                 IF fee = 0 /\ fairAmount > 0 THEN 1 ELSE fee)
             IN  IF s2.reverted THEN s2
                 ELSE [s2 EXCEPT !.ethBalance = @ - ethOut]

\* sellFair whose payout leaves the native balance as it was.
sellFairBefore_balanceKept(s, sender, fairAmount, minEthOut, deadline) ==
    LET s0 == whenNotPaused(nonReentrantBefore(s))
    IN  IF s0.reverted THEN s0
        ELSE IF ~(BlockTime <= deadline) THEN Failed(s0, "EXPIRED")
        ELSE IF ~(fairAmount > 0) THEN Failed(s0, "ZERO_IN")
        ELSE LET s1 == _transfer(s0, sender, THIS, fairAmount)
                 fee == sellFee(fairAmount)
                 s2 == _transfer(s1, THIS, founder, fee)
                 ethOut == sellEthOut(s2, fairAmount)
             IN  IF s2.reverted THEN s2
                 ELSE IF ~(ethOut > 0) THEN Failed(s2, "NO_LIQUIDITY")
                 ELSE IF ~(ethOut >= minEthOut) THEN Failed(s2, "SLIPPAGE_EXCEEDED")
                 ELSE IF ~(ethOut <= s2.ethBalance) THEN Failed(s2, "INSUFFICIENT_ETH")
                 ELSE s2

\* sellFair up to and including the transfer of ethOut to the seller:
\* msg.sender.call{value: ethOut}("") has taken the value and runs the seller.
sellFairBefore(s, sender, fairAmount, minEthOut, deadline) ==
    LET s0 == whenNotPaused(nonReentrantBefore(s))
    IN  IF s0.reverted THEN s0
        ELSE IF ~(BlockTime <= deadline) THEN Failed(s0, "EXPIRED")
        ELSE IF ~(fairAmount > 0) THEN Failed(s0, "ZERO_IN")
        ELSE LET s1 == _transfer(s0, sender, THIS, fairAmount)
                 fee == sellFee(fairAmount)
                 s2 == _transfer(s1, THIS, founder, fee)
                 ethOut == sellEthOut(s2, fairAmount)
             IN  IF s2.reverted THEN s2
                 ELSE IF ~(ethOut > 0) THEN Failed(s2, "NO_LIQUIDITY")
                 ELSE IF ~(ethOut >= minEthOut) THEN Failed(s2, "SLIPPAGE_EXCEEDED")
                 ELSE IF ~(ethOut <= s2.ethBalance) THEN Failed(s2, "INSUFFICIENT_ETH")
                 ELSE [s2 EXCEPT !.ethBalance = @ - ethOut]

\* sellFair from the return of the payout call: ok is what the call returned.
\* sellFair going on after its payout call whatever the call returned.
sellFairAfter_ignoreOk(s, sender, fairAmount, fee, ethOut, ok) ==
    IF s.reverted THEN s
    ELSE LET s1 == _sync(s)
             s2 == emit(s1, << "Sell", sender, fairAmount, fee, ethOut >>)
         IN  nonReentrantAfter(s2)

sellFairAfter(s, sender, fairAmount, fee, ethOut, ok) ==
    IF s.reverted THEN s
    ELSE IF ~ok THEN Failed(s, "ETH_SEND_FAIL")
    ELSE LET s1 == _sync(s)
             s2 == emit(s1, << "Sell", sender, fairAmount, fee, ethOut >>)
         IN  nonReentrantAfter(s2)

\* receive resynchronizing only when value came with it.
receive_syncOnValue(s, sender, value) ==
    LET s0 == nonReentrantBefore(s)
    IN  IF value > 0
        THEN nonReentrantAfter(_sync(emit(s0, << "EthReceived", sender, value >>)))
        ELSE nonReentrantAfter(s0)

\* receive without nonReentrant.
receive_unguarded(s, sender, value) ==
    LET s1 == IF value > 0 THEN emit(s, << "EthReceived", sender, value >>) ELSE s
    IN  _sync(s1)

receive(s, sender, value) ==
    LET s0 == nonReentrantBefore(s)
        s1 == IF value > 0 THEN emit(s0, << "EthReceived", sender, value >>) ELSE s0
    IN  nonReentrantAfter(_sync(s1))

(***************************************************************************)
(* Inputs of the calls.                                                    *)
(***************************************************************************)
\* Token amounts, in base units: 10 and 100 tokens moved, 50 approved, 10 and
\* 50 donated, and for a sell: nothing, one base unit, 500 base units, 10 and
\* 50 tokens.
TransferAmounts == {10 * WAD, 100 * WAD}
ApproveAmounts == {50 * WAD}
DonateAmounts == {0, 10 * WAD, 50 * WAD}
SellAmounts == {0, 1, 500, 10 * WAD, 50 * WAD}
\* msg.value, in base units.
Values == {0, WAD}
\* A deadline that has passed, and one that is the current block's time.
Deadlines == {BlockTime - 1, BlockTime}
\* A minimum output around the quote q.
MinOuts(q) == {0, q, q + 1}
\* Who may be approved as a spender, and whose tokens a spender tries to move.
Spenders == {ZERO, "B"}
Owners == {THIS, "A"}
\* Who sends bare value.
Senders == {"B"}
\* Who tokens are sent to.
Recipients == {ZERO, THIS, "A", "B"}
\* The proofs a caller may present: the tree's proofs, and a proof with one
\* sibling altered.
ClaimProofs == {proofs(a) : a \in Users} \cup {<< keccakAddress(THIS) >>}

(***************************************************************************)
(* Calls.  A call made while pc = "payout" is made by (or on behalf of)    *)
(* the seller from inside the payout; it runs the same code on the state   *)
(* the suspended sellFair left.                                            *)
(***************************************************************************)
NoFrame ==
    [ seller |-> ZERO, fairAmount |-> 0, minEthOut |-> 0, deadline |-> 0,
      fee |-> 0, ethOut |-> 0, nested |-> 0 ]

\* The contract after its constructor, with budget transactions to come.
Deployed(budget) ==
    /\ totalSupply = Constructed.totalSupply
    /\ _balances = Constructed._balances
    /\ _allowances = Constructed._allowances
    /\ claimed = Constructed.claimed
    /\ reserveFair = Constructed.reserveFair
    /\ reserveEth = Constructed.reserveEth
    /\ _locked = Constructed._locked
    /\ _paused = Constructed._paused
    /\ ethBalance = Constructed.ethBalance
    /\ events = << >>
    /\ last = [op |-> "constructor", caller |-> founder, args |-> << >>, result |-> "OK"]
    /\ pc = "idle"
    /\ frame = NoFrame
    /\ saved = Constructed
    /\ callsLeft = budget
    /\ airdropJson = NoAirdrop
    /\ db = EmptyDb
    /\ request = NoRequest

Init == Deployed(MaxCalls)

\* One more transaction, for the runs that need four.
InitDeep == Deployed(MaxCalls + 1)

\* The storage becomes that of context r.
Store(r) ==
    /\ totalSupply' = r.totalSupply
    /\ _balances' = r._balances
    /\ _allowances' = r._allowances
    /\ claimed' = r.claimed
    /\ reserveFair' = r.reserveFair
    /\ reserveEth' = r.reserveEth
    /\ _locked' = r._locked
    /\ _paused' = r._paused
    /\ ethBalance' = r.ethBalance
    /\ events' = r.events

\* A call may start: a transaction while idle, a nested call during a payout.
\* A rejected call changes nothing, so a behaviour is followed up to its first
\* rejected call (after a rejected nested call, to the end of the payout): the
\* calls after it would start from the storage the calls before it left.
\* A call made during a payout is made by the seller, whose code is running.
CanCall(caller) ==
    /\ last.result \in {"OK", "PENDING"}
    /\ IF pc = "idle"
       THEN callsLeft > 0
       ELSE frame.nested < MaxNested /\ caller = frame.seller

\* A call returns with context r: a revert undoes the call's writes and
\* drops its records, and gives msg.value back.
Return(op, caller, args, r) ==
    /\ CanCall(caller)
    /\ IF r.reverted
       THEN /\ UNCHANGED storage
            /\ events' = IF pc = "idle" THEN << >> ELSE events
       ELSE Store(r)
    /\ last' = [op |-> op, caller |-> caller, args |-> args, result |-> r.result]
    /\ callsLeft' = IF pc = "idle" THEN callsLeft - 1 ELSE callsLeft
    /\ frame' = IF pc = "idle" THEN frame ELSE [frame EXCEPT !.nested = @ + 1]
    /\ UNCHANGED << pc, saved, server, request >>

Approve(c, spender, amount) ==
    Return("approve", c, << spender, amount >>, approve(Enter(0), c, spender, amount))

Transfer(c, to, amount) ==
    Return("transfer", c, << to, amount >>, transfer(Enter(0), c, to, amount))

TransferFrom(c, from, to, amount) ==
    Return("transferFrom", c, << from, to, amount >>,
           transferFrom(Enter(0), c, from, to, amount))

Pause(c) == Return("pause", c, << >>, pause(Enter(0), c))

Unpause(c) == Return("unpause", c, << >>, unpause(Enter(0), c))

Claim(c, proof) == Return("claim", c, << proof >>, claim(Enter(0), c, proof))

Donate(c, fairAmount, value) ==
    Return("donate", c, << fairAmount, value >>,
           donate(Enter(value), c, fairAmount, value))

BuyFair(c, minAmountOut, deadline, value) ==
    Return("buyFair", c, << minAmountOut, deadline, value >>,
           buyFair(Enter(value), c, minAmountOut, deadline, value))

Receive(c, value) == Return("receive", c, << value >>, receive(Enter(value), c, value))

\* sellFair as a transaction runs to its payout call and is suspended there;
\* called from inside a payout it runs through, its own payout accepted.
SellFair(c, fairAmount, minEthOut, deadline) ==
    LET s0 == sellFairBefore(Enter(0), c, fairAmount, minEthOut, deadline)
        fee == sellFee(fairAmount)
        ethOut == sellEthOut(Enter(0), fairAmount)
    IN  IF pc = "idle" /\ ~s0.reverted
        THEN /\ CanCall(c)
             /\ Store(s0)
             /\ last' = [op |-> "sellFair", caller |-> c,
                          args |-> << fairAmount, minEthOut, deadline >>,
                          result |-> "PENDING"]
             /\ pc' = "payout"
             /\ frame' = [seller |-> c, fairAmount |-> fairAmount,
                          minEthOut |-> minEthOut, deadline |-> deadline,
                          fee |-> fee, ethOut |-> ethOut, nested |-> 0]
             /\ saved' = Snapshot
             /\ callsLeft' = callsLeft - 1
             /\ UNCHANGED << server, request >>
        ELSE Return("sellFair", c, << fairAmount, minEthOut, deadline >>,
                    sellFairAfter(s0, c, fairAmount, fee, ethOut, TRUE))

\* The payout call returns ok, and the suspended sellFair runs to its end.
Payout(ok) ==
    /\ pc = "payout"
    /\ LET r == sellFairAfter(Enter(0), frame.seller, frame.fairAmount,
                              frame.fee, frame.ethOut, ok)
       IN  /\ IF r.reverted
              THEN /\ totalSupply' = saved.totalSupply
                   /\ _balances' = saved._balances
                   /\ _allowances' = saved._allowances
                   /\ claimed' = saved.claimed
                   /\ reserveFair' = saved.reserveFair
                   /\ reserveEth' = saved.reserveEth
                   /\ _locked' = saved._locked
                   /\ _paused' = saved._paused
                   /\ ethBalance' = saved.ethBalance
                   /\ events' = << >>
              ELSE Store(r)
           /\ last' = [op |-> "sellFair", caller |-> frame.seller,
                        args |-> << frame.fairAmount, frame.minEthOut, frame.deadline >>,
                        result |-> r.result]
    /\ pc' = "idle"
    /\ frame' = NoFrame
    /\ saved' = Constructed
    /\ UNCHANGED << callsLeft, server, request >>

Next ==
    \/ \E c \in Users, spender \in Spenders, amount \in ApproveAmounts :
          Approve(c, spender, amount)
    \/ \E c \in Users, to \in Recipients, amount \in TransferAmounts :
          Transfer(c, to, amount)
    \/ \E c \in Users, from \in Owners, to \in Recipients, amount \in TransferAmounts :
          TransferFrom(c, from, to, amount)
    \/ \E c \in Users : Pause(c)
    \/ \E c \in Users : Unpause(c)
    \/ \E c \in Users, proof \in ClaimProofs : Claim(c, proof)
    \/ \E c \in Users, fairAmount \in DonateAmounts, value \in Values :
          Donate(c, fairAmount, value)
    \/ \E c \in Users, value \in Values, deadline \in Deadlines :
          \E minAmountOut \in MinOuts(_getAmountOut(value, reserveEth, reserveFair)) :
             BuyFair(c, minAmountOut, deadline, value)
    \/ \E c \in Users, fairAmount \in SellAmounts, deadline \in Deadlines :
          \E minEthOut \in MinOuts(sellEthOut(Enter(0), fairAmount)) :
             SellFair(c, fairAmount, minEthOut, deadline)
    \/ \E ok \in BOOLEAN : Payout(ok)
    \/ \E c \in Senders, value \in Values : Receive(c, value)

Spec == Init /\ [][Next]_vars

SpecDeep == InitDeep /\ [][Next]_vars

(***************************************************************************)
(* The calls of the test scenarios of test/faircoin.test.js: claims with   *)
(* the caller's own proof, donations of 50 tokens, transfers and sells of  *)
(* 10 tokens, buys with WAD of value.                                      *)
(***************************************************************************)
NextScenario ==
    \/ \E c \in Users : Claim(c, proofs(c))
    \/ \E c \in Users, value \in {WAD, 2 * WAD} : Donate(c, 50 * WAD, value)
    \/ \E c \in Users, to \in Users : Transfer(c, to, 10 * WAD)
    \/ \E c \in Users : BuyFair(c, 0, BlockTime, WAD)
    \/ \E c \in Users : SellFair(c, 10 * WAD, 0, BlockTime)
    \/ \E ok \in BOOLEAN : Payout(ok)

SpecScenario == InitDeep /\ [][NextScenario]_vars

(***************************************************************************)
(* Claims only, presented with the proofs of the offline tree and with     *)
(* every proof that differs from one of them in one sibling.               *)
(***************************************************************************)
\* proof with its i-th sibling replaced by v.
alterSibling(proof, i, v) == [proof EXCEPT ![i] = v]

AlteredProofs ==
    { alterSibling(proofs(a), i, v) :
        << a, i, v >> \in { x \in Users \X (1..2) \X (0..MaxSibling) :
                               x[2] <= Len(proofs(x[1])) } }

VerifyProofs == AlteredProofs \cup ClaimProofs \cup {<< >>}

NextVerify == \E c \in Users, proof \in VerifyProofs : Claim(c, proof)

SpecVerify == Init /\ [][NextVerify]_vars

(***************************************************************************)
(* The pricing functions on their own, applied to every amount and pair of *)
(* reserves up to MaxQuote; last records the application and its value.    *)
(***************************************************************************)
QuoteInputs == 0..MaxQuote

Applied(op, args, value) ==
    /\ last' = [op |-> op, caller |-> THIS, args |-> args, result |-> value]
    /\ UNCHANGED << storage, events, pc, frame, saved, callsLeft, server, request >>

GetAmountOut(amountIn, reserveIn, reserveOut) ==
    Applied("_getAmountOut", << amountIn, reserveIn, reserveOut >>,
            _getAmountOut(amountIn, reserveIn, reserveOut))

AmountOutConstantProduct(amountIn, reserveIn, reserveOut) ==
    Applied("amountOutConstantProduct", << amountIn, reserveIn, reserveOut >>,
            amountOutConstantProduct(amountIn, reserveIn, reserveOut))

NextQuote ==
    \/ \E amountIn \in QuoteInputs, reserveIn \in QuoteInputs, reserveOut \in QuoteInputs :
          GetAmountOut(amountIn, reserveIn, reserveOut)
    \/ \E amountIn \in QuoteInputs, reserveIn \in QuoteInputs, reserveOut \in QuoteInputs :
          AmountOutConstantProduct(amountIn, reserveIn, reserveOut)

SpecQuote == Init /\ [][NextQuote]_vars

(***************************************************************************)
(* The front end's proof check (public/app.js).  A hex string is the       *)
(* sequence of its character codes: "0x", then HashChars digits for a      *)
(* hash.  ethers.getBytes reads the digits in either case, ethers.hexlify  *)
(* and ethers.keccak256 write them in lower case, and < on strings         *)
(* compares character codes from the left.                                 *)
(***************************************************************************)
\* Hex digits of a hash.
HashChars == 8

\* The character of digit d, in lower case.
hexChar(d) == IF d < 10 THEN 48 + d ELSE 87 + d

\* The digit of character c: '0'-'9', 'A'-'F' or 'a'-'f'.
hexDigit(c) == IF c <= 57 THEN c - 48 ELSE IF c <= 70 THEN c - 55 ELSE c - 87

RECURSIVE hexDigits(_, _)
hexDigits(n, width) ==
    IF width = 0 THEN << >>
    ELSE Append(hexDigits(n \div 16, width - 1), hexChar(n % 16))

\* ethers.hexlify of a hash: "0x" and its digits in lower case.
hexlify(n) == << 48, 120 >> \o hexDigits(n, HashChars)

RECURSIVE bytesFrom(_, _, _)
bytesFrom(str, i, n) ==
    IF i > Len(str) THEN n ELSE bytesFrom(str, i + 1, 16 * n + hexDigit(str[i]))

\* ethers.getBytes of a hex string: the value after "0x".
getBytes(str) == bytesFrom(str, 3, 0)

\* String.prototype.toLowerCase.
toLowerCase(str) ==
    [i \in 1..Len(str) |-> IF str[i] \in 65..90 THEN str[i] + 32 ELSE str[i]]

\* The same string with its digits in upper case, as a server may send it.
toUpperDigits(str) ==
    [i \in 1..Len(str) |-> IF i > 2 /\ str[i] \in 97..102 THEN str[i] - 32 ELSE str[i]]

\* x < y on strings.
RECURSIVE stringLess(_, _, _)
stringLess(x, y, i) ==
    IF i > Len(y) THEN FALSE
    ELSE IF i > Len(x) THEN TRUE
    ELSE IF x[i] # y[i] THEN x[i] < y[i]
    ELSE stringLess(x, y, i + 1)

\* ethers.getAddress accepts the address.
validAddress(address) == address \in Addr

\* hashAddress of the front end: the hash as a hex string, << >> for null.
appHashAddress(address) ==
    IF validAddress(address) THEN hexlify(keccakAddress(address)) ELSE << >>

\* verifyProof comparing the hash with the sibling string as received.
RECURSIVE verifyProofRawFrom(_, _, _)
verifyProofRawFrom(proof, i, hash) ==
    IF i > Len(proof) THEN hash
    ELSE LET a == getBytes(hash)
             b == getBytes(proof[i])
             pair == IF stringLess(hash, proof[i], 1)
                     THEN keccakPair(a, b) ELSE keccakPair(b, a)
         IN  verifyProofRawFrom(proof, i + 1, hexlify(pair))

verifyProof_rawCompare(address, proof, root) ==
    LET hash == appHashAddress(address)
    IN  IF hash = << >> THEN FALSE
        ELSE toLowerCase(verifyProofRawFrom(proof, 1, hash)) = toLowerCase(root)

RECURSIVE verifyProofFrom(_, _, _)
verifyProofFrom(proof, i, hash) ==
    IF i > Len(proof) THEN hash
    ELSE LET a == getBytes(hash)
             b == getBytes(proof[i])
             pair == IF stringLess(hexlify(a), hexlify(b), 1)
                     THEN keccakPair(a, b) ELSE keccakPair(b, a)
         IN  verifyProofFrom(proof, i + 1, hexlify(pair))

verifyProof(address, proof, root) ==
    LET hash == appHashAddress(address)
    IN  IF hash = << >> THEN FALSE
        ELSE toLowerCase(verifyProofFrom(proof, 1, hash)) = toLowerCase(root)

\* The proof as the contract receives it: bytes32[] from the hex strings.
proofBytes(proof) == [i \in 1..Len(proof) |-> getBytes(proof[i])]

\* The inputs: the addresses and one string that is no address; the proofs of
\* the offline tree and every proof of at most one sibling, a sibling equal
\* to the leaf included; the root of the contract and the roots that make a
\* one-sibling proof valid; each in lower and in upper case.
AppAddresses == Users \cup {THIS, "0xbad"}

AppSiblings == {keccakAddress(a) : a \in Users \cup {THIS}} \cup {10, 12}

AppProofBytes ==
    {proofs(a) : a \in Users} \cup {<< v >> : v \in AppSiblings} \cup {<< >>}

AppRootBytes ==
    {merkleRoot} \cup
    { verifyFrom(<< v >>, 1, keccakAddress(a)) :
        << a, v >> \in {"A", THIS} \X {keccakAddress("A"), keccakAddress(THIS), 12} }

AppProofs ==
    LET lower == { [i \in 1..Len(p) |-> hexlify(p[i])] : p \in AppProofBytes }
    IN  lower \cup { [i \in 1..Len(p) |-> toUpperDigits(p[i])] : p \in lower }

AppRoots ==
    LET lower == { hexlify(r) : r \in AppRootBytes }
    IN  lower \cup { toUpperDigits(r) : r \in lower }

VerifyProof(address, proof, root) ==
    Applied("verifyProof", << address, proof, root >>, verifyProof(address, proof, root))

NextApp ==
    \E address \in AppAddresses, proof \in AppProofs, root \in AppRoots :
       VerifyProof(address, proof, root)

SpecApp == Init /\ [][NextApp]_vars

(***************************************************************************)
(* The server: the allowlist is rebuilt into airdrop.json, the server is   *)
(* started, eligibility is asked.  The contract is left alone.             *)
(***************************************************************************)
\* The allowlists: up to as many addresses as the sample list, in any order,
\* an address possibly listed twice.
AllowLists == UNION { [1..n -> Users] : n \in 1..Len(entries) }

\* A step of the server, recorded in last.
Served(op, args, value) ==
    /\ last' = [op |-> op, caller |-> "server", args |-> args, result |-> value]
    /\ UNCHANGED << storage, events, pc, frame, saved, callsLeft, request >>

\* npm run build:merkle on an allowlist.
BuildMerkle(list) ==
    /\ airdropJson' = main(list)
    /\ UNCHANGED db
    /\ Served("build:merkle", << list >>, "OK")

\* npm run dev: createServer calls initDb; when initDb throws the process
\* ends, and what it had written stays in the file.
CreateServer ==
    LET r == initDb(db, airdropJson)
    IN  /\ db' = r.db
        /\ UNCHANGED airdropJson
        /\ Served("initDb", << >>, r.result)

\* A request to a running server: the last start returned.
Eligibility(address) ==
    /\ \/ last.op = "initDb" /\ last.result = "OK"
       \/ last.op = "eligibility"
    /\ UNCHANGED server
    /\ Served("eligibility", << address >>, eligibility(db, address))

NextServer ==
    \/ \E list \in AllowLists : BuildMerkle(list)
    \/ CreateServer
    \/ \E address \in Users : Eligibility(address)

SpecServer == Init /\ [][NextServer]_vars

(***************************************************************************)
(* The contract together with its pricing function on its own: before the  *)
(* first call _getAmountOut is applied to the amounts and reserves up to   *)
(* MaxQuote.                                                               *)
(***************************************************************************)
QuoteBeforeCalls ==
    /\ last.op \in {"constructor", "_getAmountOut"}
    /\ \E amountIn \in QuoteInputs, reserveIn \in QuoteInputs, reserveOut \in QuoteInputs :
          GetAmountOut(amountIn, reserveIn, reserveOut)

NextTrade ==
    \/ last.op # "_getAmountOut" /\ Next
    \/ QuoteBeforeCalls

SpecTrade == Init /\ [][NextTrade]_vars

(***************************************************************************)
(* The front end fetching: fetchWithRetry is called with maxRetries up to  *)
(* MaxRetries, each attempt ends in one of the outcomes, each timer fires. *)
(* A call is made when none is running.                                    *)
(***************************************************************************)
Fetching(r) ==
    /\ request' = r
    /\ UNCHANGED << storage, events, last, pc, frame, saved, callsLeft, server >>

FetchWithRetry(maxRetries) ==
    /\ request.status \in {"idle", "returned", "thrown"}
    /\ Fetching(fetchWithRetry(maxRetries))

Attempt(outcome) ==
    /\ request.status = "attempt"
    /\ Fetching(fetchAttempt(request, outcome))

TimerFires ==
    /\ request.status = "waiting"
    /\ Fetching(timerFired(request))

\* A running call takes its next step.
FetchStep == (\E outcome \in Outcomes : Attempt(outcome)) \/ TimerFires

NextFetch ==
    \/ \E maxRetries \in 0..MaxRetries : FetchWithRetry(maxRetries)
    \/ \E outcome \in Outcomes : Attempt(outcome)
    \/ TimerFires

\* fetchWithTimeout ends every attempt, by a response, a failure or the abort
\* at the timeout, and every timer fires: a running call keeps stepping.
SpecFetch == Init /\ [][NextFetch]_vars /\ WF_vars(FetchStep)

(***************************************************************************)
(* Properties.                                                             *)
(***************************************************************************)
RECURSIVE SumOver(_, _)
SumOver(f, S) ==
    IF S = {} THEN 0
    ELSE LET a == CHOOSE x \in S : TRUE IN f[a] + SumOver(f, S \ {a})

\* The storage after a step, as a record.
SnapshotNext ==
    [ totalSupply |-> totalSupply', _balances |-> _balances',
      _allowances |-> _allowances', claimed |-> claimed',
      reserveFair |-> reserveFair', reserveEth |-> reserveEth',
      _locked |-> _locked', _paused |-> _paused', ethBalance |-> ethBalance' ]

\* How a call ended.
Rejected(result) == result \notin {"OK", "PENDING"}

\* The step suspends a sellFair at its payout; the step ends that sellFair.
SuspendStep == pc = "idle" /\ pc' = "payout"
ResumeStep == pc = "payout" /\ pc' = "idle"

\* C1: in every reachable state (between calls and inside a payout alike)
\* totalSupply is the sum of all balances, and it is at most MAX_SUPPLY.
C1_SupplyIsSumOfBalances ==
    /\ totalSupply = SumOver(_balances, Addr)
    /\ totalSupply <= MAX_SUPPLY

\* C1's case: the supply is at its ceiling and tokens have just been moved.
C1_Witness ==
    /\ totalSupply = MAX_SUPPLY
    /\ last.op = "transfer" /\ last.result = "OK"
    /\ last.args[1] = last.caller

\* C2: after any operation has returned, the cached reserves are the pool's
\* token balance and the contract's native balance.
C2_ReservesEqualGroundTruth ==
    pc = "idle" => reserveFair = _balances[THIS] /\ reserveEth = ethBalance

\* C3: a rejected call leaves the storage (balances, allowances, totalSupply,
\* claimed set, reserves, native balance, pause flag, lock) as it was before the
\* call; for a sellFair rejected after its payout, as it was when it began.
C3_FailureAtomicity ==
    [][ Rejected(last'.result) =>
          IF ResumeStep THEN SnapshotNext = saved ELSE SnapshotNext = Snapshot ]_vars

\* C3's case: a transferFrom was rejected after its allowance check had passed.
C3_Witness ==
    /\ last.op = "transferFrom" /\ last.result = "BALANCE"
    /\ _allowances[last.args[1]][last.caller] > 0

\* C4: a successful claim by c credits c with 95 tokens and the pool with 5,
\* raises totalSupply by 100 tokens, marks c claimed, leaves every other
\* balance and every allowance alone, leaves the reserves synced and emits
\* Claimed(c, 95, 5); it happens only when Active, unclaimed, proof valid and
\* with headroom under the ceiling.
C4_ClaimEffect ==
    [][ (last'.op = "claim" /\ last'.result = "OK") =>
          LET c == last'.caller IN
          /\ ~_paused /\ ~claimed[c] /\ _verify(last'.args[1], c)
          /\ totalSupply + 100 * WAD <= MAX_SUPPLY
          /\ _balances' = [_balances EXCEPT ![c] = @ + 95 * WAD,
                                            ![THIS] = _balances[THIS] + 5 * WAD]
          /\ totalSupply' = totalSupply + 100 * WAD
          /\ claimed' = [claimed EXCEPT ![c] = TRUE]
          /\ _allowances' = _allowances
          /\ reserveFair' = _balances'[THIS] /\ reserveEth' = ethBalance'
          /\ ethBalance' = ethBalance
          /\ events'[Len(events')] = << "Claimed", c, 95 * WAD, 5 * WAD >> ]_vars

\* C4's case: A has claimed into a fresh pool.
C4_Witness ==
    /\ last.op = "claim" /\ last.result = "OK" /\ last.caller = "A"
    /\ _balances["A"] = 95 * WAD /\ _balances[THIS] = 5 * WAD
    /\ totalSupply = 100 * WAD /\ claimed["A"]

\* The claim registry only grows.
RegistryMonotonic == \A a \in Addr : claimed[a] => claimed'[a]

\* The claim mint (95 tokens to the caller) happens only for an address that
\* has not claimed; with RegistryMonotonic, at most once per address.
ClaimMintOnlyUnclaimed ==
    (last'.op = "claim" /\ last'.result = "OK") => ~claimed[last'.caller]

\* C5 as stated: the registry is monotonic, every later claim by an address
\* that has claimed fails with ALREADY_CLAIMED whatever the proof, and the
\* claim mint happens at most once per address.
C5_LaterClaimAlreadyDone ==
    [][ /\ RegistryMonotonic
        /\ ClaimMintOnlyUnclaimed
        /\ (last'.op = "claim" /\ claimed[last'.caller]) =>
              last'.result = "ALREADY_CLAIMED" ]_vars

\* C5, amended: the registry is monotonic, the claim mint happens at most once
\* per address, and every later claim by an address that has claimed fails and
\* mints nothing, whatever the proof: with REENTRANCY when made inside a
\* payout, else with EnforcedPause while paused, else with ALREADY_CLAIMED.
C5_LaterClaimFails ==
    [][ /\ RegistryMonotonic
        /\ ClaimMintOnlyUnclaimed
        /\ (last'.op = "claim" /\ claimed[last'.caller]) =>
              /\ last'.result = IF _locked THEN "REENTRANCY"
                                ELSE IF _paused THEN "EnforcedPause"
                                ELSE "ALREADY_CLAIMED"
              /\ _balances' = _balances /\ totalSupply' = totalSupply ]_vars

\* C5's case: an address that has claimed claims again, with a proof that is
\* not its own, and is told ALREADY_CLAIMED.
C5_Witness ==
    /\ last.op = "claim" /\ last.result = "ALREADY_CLAIMED"
    /\ claimed[last.caller] /\ last.args[1] # proofs(last.caller)
    /\ _balances[last.caller] = 95 * WAD

\* _verify accepts exactly the proof the offline tree gives for the account.
VerifyIsTreeProof(proof, account) == _verify(proof, account) <=> proof = proofs(account)

\* C6 as stated: _verify accepts every (account, proof) pair of the offline
\* tree and rejects a proof built for another account or with a sibling
\* altered, and a claim with a rejected proof fails with INVALID_PROOF, never
\* another error, and mints nothing.
C6_FailingProofInvalidProof ==
    [][ last'.op = "claim" =>
          LET c == last'.caller
              proof == last'.args[1]
          IN  /\ VerifyIsTreeProof(proof, c)
              /\ ~_verify(proof, c) =>
                    last'.result = "INVALID_PROOF" /\ SnapshotNext = Snapshot ]_vars

\* C6, amended: _verify accepts every (account, proof) pair of the offline
\* tree and rejects a proof built for another account or with a sibling
\* altered; a claim with a rejected proof, made when the lock is free, the
\* contract is not paused and the caller has not claimed, fails with
\* INVALID_PROOF (also when the supply ceiling is reached) and mints nothing;
\* a caller that has claimed is told ALREADY_CLAIMED instead; and no claim
\* with an accepted proof fails with INVALID_PROOF.
C6_VerifyAndInvalidProof ==
    [][ last'.op = "claim" =>
          LET c == last'.caller
              proof == last'.args[1]
          IN  /\ VerifyIsTreeProof(proof, c)
              /\ (~_verify(proof, c) /\ ~_locked /\ ~_paused) =>
                    /\ last'.result = IF claimed[c] THEN "ALREADY_CLAIMED"
                                      ELSE "INVALID_PROOF"
                    /\ SnapshotNext = Snapshot
              /\ last'.result = "INVALID_PROOF" => ~_verify(proof, c) ]_vars

\* C6's case: with the supply at its ceiling, an account that has not claimed
\* presents its own proof with one sibling altered and is told INVALID_PROOF.
C6_Witness ==
    /\ last.op = "claim" /\ last.result = "INVALID_PROOF"
    /\ totalSupply = MAX_SUPPLY /\ ~claimed[last.caller]
    /\ LET proof == last.args[1]
           own == proofs(last.caller)
       IN  /\ Len(proof) = Len(own)
           /\ Cardinality({i \in 1..Len(own) : proof[i] # own[i]}) = 1

\* The calls under nonReentrant, and the others that write storage.
Guarded == {"claim", "donate", "buyFair", "sellFair", "receive"}
Unguarded == {"approve", "transfer", "transferFrom", "pause", "unpause"}

\* The step is a call made from inside the payout of a suspended sellFair.
NestedStep == pc = "payout" /\ pc' = "payout"

\* C7: the lock is held exactly during the payout of a sellFair in flight,
\* and every call of claim, donate, buyFair, sellFair or receive made then
\* fails with REENTRANCY and leaves storage and records as they were.
C7_NestedGuardedCallFails ==
    [][ /\ _locked <=> pc = "payout"
        /\ (NestedStep /\ last'.op \in Guarded) =>
              /\ last'.result = "REENTRANCY"
              /\ SnapshotNext = Snapshot
              /\ events' = events ]_vars

\* C7's case: inside the payout the seller calls buyFair with native value,
\* no minimum and a live deadline, which the cached reserves would price at
\* more than nothing, and is told REENTRANCY.
C7_Witness ==
    /\ pc = "payout" /\ _locked
    /\ last.op = "buyFair" /\ last.result = "REENTRANCY"
    /\ last.args = << 0, BlockTime, WAD >>
    /\ _getAmountOut(WAD, reserveEth, reserveFair) > 0

\* C8 as stated: between the start and the end of a sellFair, the payout's
\* callback included, no other mutating call takes effect.
C8_NoCallTakesEffectInPayout ==
    [][ NestedStep => SnapshotNext = Snapshot ]_vars

\* C8, amended: no call is in flight between transactions; inside the payout
\* of a sellFair no call of claim, donate, buyFair, sellFair or receive takes
\* effect, but approve, transfer, transferFrom, pause and unpause, which are
\* not under nonReentrant, take effect there; their writes are undone with
\* the sellFair's if the payout fails.
C8_OnlyUnguardedCallsInPayout ==
    [][ /\ pc = "idle" => ~_locked
        /\ NestedStep =>
              \/ SnapshotNext = Snapshot /\ events' = events
              \/ last'.op \in Unguarded /\ last'.result = "OK"
        /\ (ResumeStep /\ Rejected(last'.result)) => SnapshotNext = saved ]_vars

\* C8's case: inside the payout the seller has transferred tokens to another
\* address, and the transfer has taken effect.
C8_Witness ==
    /\ pc = "payout"
    /\ last.op = "transfer" /\ last.result = "OK"
    /\ last.args[1] # last.caller
    /\ LET paid == [saved._balances EXCEPT
                      ![last.caller] = @ - frame.fairAmount,
                      ![THIS] = @ + frame.fairAmount - frame.fee,
                      ![founder] = @ + frame.fee]
       IN  _balances[last.args[1]] = paid[last.args[1]] + last.args[2]

\* C9: saved is the storage a suspended sellFair began on; when its payout is
\* not delivered the sellFair fails with ETH_SEND_FAIL, the storage (the
\* seller's, the pool's and the founder's balances, both reserves, the native
\* balance) is again what it was before the call, and no record of the call
\* remains.  No other failure ends a suspended sellFair.
C9_PayoutFailureUndoesSell ==
    [][ /\ SuspendStep => saved' = Snapshot
        /\ NestedStep => saved' = saved
        /\ Payout(FALSE) =>
              /\ last'.result = "ETH_SEND_FAIL"
              /\ SnapshotNext = saved
              /\ events' = << >>
        /\ (ResumeStep /\ Rejected(last'.result)) => Payout(FALSE) ]_vars

\* C9's case: a sellFair by a seller other than the founder has failed at its
\* payout; the founder holds no fee, the seller its 95 tokens, the pool its 5
\* tokens and the native value it held.
C9_Witness ==
    /\ pc = "idle"
    /\ last.op = "sellFair" /\ last.result = "ETH_SEND_FAIL"
    /\ last.caller = "A" /\ last.args[1] >= FEE_DENOMINATOR
    /\ _balances[founder] = 0 /\ _balances["A"] = 95 * WAD
    /\ _balances[THIS] = 5 * WAD /\ reserveFair = 5 * WAD
    /\ ethBalance = WAD /\ reserveEth = WAD
    /\ events = << >>

\* C10: after every successful buyFair and sellFair the product of the pool's
\* token balance and the contract's native balance is at least the product
\* before the trade.
C10_ProductNeverDecreases ==
    [][ (last'.op \in {"buyFair", "sellFair"} /\ last'.result = "OK") =>
          LET before == IF ResumeStep THEN saved ELSE Snapshot
          IN  _balances'[THIS] * ethBalance' >=
                 before._balances[THIS] * before.ethBalance ]_vars

\* The arguments of the last application are all positive.
PositiveArgs == last.args[1] > 0 /\ last.args[2] > 0 /\ last.args[3] > 0

\* C11: _getAmountOut(amountIn, reserveIn, reserveOut) is 0 when one of its
\* arguments is 0, and otherwise the largest integer q with
\* q * (reserveIn + amountIn) <= reserveOut * amountIn: the floor of the
\* exact constant-product output, never more than it.
C11_QuoteOutIsFloor ==
    last.op = "_getAmountOut" =>
       LET amountIn == last.args[1]
           reserveIn == last.args[2]
           reserveOut == last.args[3]
           q == last.result
       IN  IF amountIn = 0 \/ reserveIn = 0 \/ reserveOut = 0
           THEN q = 0
           ELSE /\ q >= 0
                /\ q * (reserveIn + amountIn) <= reserveOut * amountIn
                /\ reserveOut * amountIn < (q + 1) * (reserveIn + amountIn)

\* C11's case: a positive quote that was rounded down.
C11_Witness ==
    /\ last.op = "_getAmountOut" /\ PositiveArgs
    /\ last.result > 0
    /\ last.result * (last.args[2] + last.args[1]) < last.args[3] * last.args[1]

\* C12 as stated: for positive arguments the difference form
\* reserveOut - (reserveIn * reserveOut) / (reserveIn + amountIn) and the
\* quotient form (reserveOut * amountIn) / (reserveIn + amountIn) are equal
\* under integer division, and _getAmountOut returns the common value.
C12_FormulasEquivalent ==
    (last.op \in {"_getAmountOut", "amountOutConstantProduct"} /\ PositiveArgs) =>
       LET amountIn == last.args[1]
           reserveIn == last.args[2]
           reserveOut == last.args[3]
           difference == reserveOut - (reserveIn * reserveOut) \div (reserveIn + amountIn)
           quotient == (reserveOut * amountIn) \div (reserveIn + amountIn)
       IN  /\ difference = quotient
           /\ _getAmountOut(amountIn, reserveIn, reserveOut) = quotient
           /\ last.result = quotient

\* C12, amended: for positive arguments _getAmountOut returns the quotient
\* form, which rounds down; the difference form (amountOutConstantProduct of
\* the tests) rounds up: it equals the quotient form when reserveIn + amountIn
\* divides reserveOut * amountIn and is one more otherwise.
C12_DifferenceFormRoundsUp ==
    (last.op \in {"_getAmountOut", "amountOutConstantProduct"} /\ PositiveArgs) =>
       LET amountIn == last.args[1]
           reserveIn == last.args[2]
           reserveOut == last.args[3]
           difference == reserveOut - (reserveIn * reserveOut) \div (reserveIn + amountIn)
           quotient == (reserveOut * amountIn) \div (reserveIn + amountIn)
           exact == (reserveOut * amountIn) % (reserveIn + amountIn) = 0
       IN  /\ difference = IF exact THEN quotient ELSE quotient + 1
           /\ last.op = "_getAmountOut" => last.result = quotient
           /\ last.op = "amountOutConstantProduct" => last.result = difference

\* C12's case: the difference form gives one more than _getAmountOut.
C12_Witness ==
    /\ last.op = "amountOutConstantProduct" /\ PositiveArgs
    /\ last.result = _getAmountOut(last.args[1], last.args[2], last.args[3]) + 1

\* C13: a successful buyFair with value valueIn > 0 charges no fee: with
\* assetOut = _getAmountOut(valueIn, reserveEth, reserveFair) on the reserves
\* before the call, the buyer gains exactly assetOut, the pool loses exactly
\* assetOut, no other balance (the founder's included) changes, the reserves
\* afterwards are (reserveFair - assetOut, reserveEth + valueIn), and
\* Buy(buyer, valueIn, assetOut) is emitted.
C13_BuyEffect ==
    [][ (last'.op = "buyFair" /\ last'.result = "OK") =>
          LET buyer == last'.caller
              valueIn == last'.args[3]
              assetOut == _getAmountOut(valueIn, reserveEth, reserveFair)
          IN  /\ valueIn > 0
              /\ _balances' = [_balances EXCEPT ![buyer] = @ + assetOut,
                                                ![THIS] = _balances[THIS] - assetOut]
              /\ totalSupply' = totalSupply
              /\ ethBalance' = ethBalance + valueIn
              /\ reserveFair' = reserveFair - assetOut
              /\ reserveEth' = reserveEth + valueIn
              /\ events'[Len(events')] = << "Buy", buyer, valueIn, assetOut >> ]_vars

\* The outcome of buyFair(minAmountOut, deadline) with msg.value = value by
\* the checks of its body alone, in their order.
BuyOutcome(minAmountOut, deadline, value) ==
    LET assetOut == _getAmountOut(value, reserveEth, reserveFair)
    IN  IF BlockTime > deadline THEN "EXPIRED"
        ELSE IF value = 0 THEN "ZERO_IN"
        ELSE IF assetOut = 0 THEN "NO_LIQUIDITY"
        ELSE IF assetOut < minAmountOut THEN "SLIPPAGE_EXCEEDED"
        ELSE "OK"

\* C14 as stated: every buyFair ends as its own checks decide, in the order
\* EXPIRED (iff block.timestamp > deadline, whatever the rest), ZERO_IN,
\* NO_LIQUIDITY, SLIPPAGE_EXCEEDED (iff assetOut < minAmountOut), and a
\* rejected buyFair changes no state.
C14_BuyPrecedence ==
    [][ last'.op = "buyFair" =>
          /\ last'.result = BuyOutcome(last'.args[1], last'.args[2], last'.args[3])
          /\ Rejected(last'.result) => SnapshotNext = Snapshot ]_vars

\* C14, amended: a buyFair made inside a payout fails with REENTRANCY, else
\* one made while paused fails with EnforcedPause; otherwise it ends as its
\* own checks decide, in the order EXPIRED (iff block.timestamp > deadline),
\* ZERO_IN, NO_LIQUIDITY, SLIPPAGE_EXCEEDED (iff assetOut < minAmountOut);
\* a rejected buyFair changes no state.
C14_BuyPrecedenceAfterModifiers ==
    [][ last'.op = "buyFair" =>
          /\ last'.result =
                IF _locked THEN "REENTRANCY"
                ELSE IF _paused THEN "EnforcedPause"
                ELSE BuyOutcome(last'.args[1], last'.args[2], last'.args[3])
          /\ Rejected(last'.result) => SnapshotNext = Snapshot ]_vars

\* C14's case: a buyFair with a deadline in the past and no value, to a pool
\* that would give something for WAD, is told EXPIRED.
C14_Witness ==
    /\ last.op = "buyFair" /\ last.result = "EXPIRED"
    /\ last.args[2] = BlockTime - 1 /\ last.args[3] = 0
    /\ ~_paused /\ ~_locked
    /\ _getAmountOut(WAD, reserveEth, reserveFair) > 0

\* max(1, floor(assetIn / 1000)).
FeeOf(assetIn) == IF assetIn \div 1000 >= 1 THEN assetIn \div 1000 ELSE 1

\* C15: a sellFair of assetIn > 0 that reaches its payout has taken the fee
\* max(1, floor(assetIn / 1000)), never zero, has priced assetIn - fee, and
\* has raised the founder's balance by exactly the fee (seller other than the
\* founder); the rest of a successful sellFair moves no tokens and its Sell
\* record carries that fee.
C15_SellFee ==
    [][ /\ SuspendStep =>
              LET assetIn == last'.args[1]
                  fee == FeeOf(assetIn)
              IN  /\ assetIn > 0 /\ fee >= 1
                  /\ frame'.fee = fee
                  /\ frame'.ethOut = _getAmountOut(assetIn - fee, reserveFair, reserveEth)
                  /\ last'.caller # founder =>
                        _balances'[founder] = _balances[founder] + fee
        /\ (ResumeStep /\ last'.result = "OK") =>
              /\ _balances' = _balances
              /\ events'[Len(events')] =
                    << "Sell", frame.seller, frame.fairAmount,
                       FeeOf(frame.fairAmount), frame.ethOut >> ]_vars

\* C15's case: A has sold 500 base units; the founder holds the fee of 1.
C15_Witness ==
    /\ pc = "idle"
    /\ last.op = "sellFair" /\ last.result = "OK"
    /\ last.caller = "A" /\ last.args[1] = 500
    /\ _balances[founder] = 1
    /\ _balances["A"] = 95 * WAD - 500
    /\ _balances[THIS] = 5 * WAD + 499

\* C16: a successful sellFair of assetIn by a seller other than the founder,
\* its payout accepted without a call made from inside it, on reserves that
\* equalled the balances before the call: the seller has assetIn less, the
\* founder the fee more, the pool assetIn - fee more; the contract has paid
\* valueOut = _getAmountOut(assetIn - fee, reserveFair, reserveEth) of the
\* reserves before the call; the reserves are (reserveFair + assetIn - fee,
\* reserveEth - valueOut); Sell(seller, assetIn, fee, valueOut) is emitted.
C16_SellEffect ==
    [][ ( /\ ResumeStep /\ last'.result = "OK"
          /\ frame.nested = 0
          /\ frame.seller # founder
          /\ saved.reserveFair = saved._balances[THIS]
          /\ saved.reserveEth = saved.ethBalance ) =>
          LET seller == frame.seller
              assetIn == frame.fairAmount
              fee == FeeOf(assetIn)
              valueOut == _getAmountOut(assetIn - fee, saved.reserveFair, saved.reserveEth)
          IN  /\ _balances' = [saved._balances EXCEPT
                                 ![seller] = @ - assetIn,
                                 ![THIS] = @ + assetIn - fee,
                                 ![founder] = @ + fee]
              /\ ethBalance' = saved.ethBalance - valueOut
              /\ reserveFair' = saved.reserveFair + assetIn - fee
              /\ reserveEth' = saved.reserveEth - valueOut
              /\ totalSupply' = saved.totalSupply
              /\ ~_locked'
              /\ events'[Len(events')] = << "Sell", seller, assetIn, fee, valueOut >> ]_vars

\* C16's case: A has sold 10 tokens to a pool of 5 tokens and WAD of value.
C16_Witness ==
    /\ pc = "idle"
    /\ last.op = "sellFair" /\ last.result = "OK"
    /\ last.caller = "A" /\ last.args[1] = 10 * WAD
    /\ _balances["A"] = 85 * WAD
    /\ reserveFair = 15 * WAD - FeeOf(10 * WAD)
    /\ reserveEth = WAD - _getAmountOut(10 * WAD - FeeOf(10 * WAD), 5 * WAD, WAD)
    /\ reserveEth = ethBalance

\* The outcome of sellFair(assetIn, minEthOut, deadline) by seller up to its
\* payout, by the checks of its body alone, in their order.
SellOutcome(seller, assetIn, minEthOut, deadline) ==
    LET valueOut == _getAmountOut(assetIn - FeeOf(assetIn), reserveFair, reserveEth)
    IN  IF BlockTime > deadline THEN "EXPIRED"
        ELSE IF assetIn = 0 THEN "ZERO_IN"
        ELSE IF _balances[seller] < assetIn THEN "BALANCE"
        ELSE IF valueOut = 0 THEN "NO_LIQUIDITY"
        ELSE IF valueOut < minEthOut THEN "SLIPPAGE_EXCEEDED"
        ELSE "PENDING"

\* C17 as stated: every sellFair ends, or reaches its payout, as its own
\* checks decide, in the order EXPIRED (iff block.timestamp > deadline),
\* ZERO_IN, BALANCE, NO_LIQUIDITY, SLIPPAGE_EXCEEDED (iff valueOut <
\* minEthOut); a rejected sellFair changes no state, the tokens taken and the
\* fee routed included.
C17_SellPrecedence ==
    [][ (last'.op = "sellFair" /\ ~ResumeStep) =>
          /\ last'.result =
                SellOutcome(last'.caller, last'.args[1], last'.args[2], last'.args[3])
          /\ Rejected(last'.result) => SnapshotNext = Snapshot ]_vars

\* C17, amended: a sellFair made inside a payout fails with REENTRANCY, else
\* one made while paused fails with EnforcedPause; otherwise it ends, or
\* reaches its payout, as its own checks decide, in the order EXPIRED (iff
\* block.timestamp > deadline), ZERO_IN, BALANCE, NO_LIQUIDITY,
\* SLIPPAGE_EXCEEDED (iff valueOut < minEthOut); a rejected sellFair changes
\* no state, the tokens taken and the fee routed included.
C17_SellPrecedenceAfterModifiers ==
    [][ (last'.op = "sellFair" /\ ~ResumeStep) =>
          /\ last'.result =
                IF _locked THEN "REENTRANCY"
                ELSE IF _paused THEN "EnforcedPause"
                ELSE SellOutcome(last'.caller, last'.args[1], last'.args[2], last'.args[3])
          /\ Rejected(last'.result) => SnapshotNext = Snapshot ]_vars

\* C17's case: a seller without the tokens is told BALANCE by a pool that has
\* no liquidity.
C17_Witness ==
    /\ last.op = "sellFair" /\ last.result = "BALANCE"
    /\ last.args[1] > 0 /\ _balances[last.caller] < last.args[1]
    /\ reserveEth = 0
    /\ ~_paused /\ ~_locked

\* From the current state the founder's pause() succeeds and pauses when the
\* contract is active, and the founder's unpause() succeeds and unpauses when
\* it is paused (inside a payout as well: neither takes the lock).
FounderCanToggle ==
    IF _paused
    THEN LET r == unpause(Enter(0), founder) IN ~r.reverted /\ ~r._paused
    ELSE LET r == pause(Enter(0), founder) IN ~r.reverted /\ r._paused

\* How a step may change the pause flag.
LifecycleStep ==
    /\ last'.op = "pause" =>
          /\ last'.result = IF last'.caller # founder THEN "NOT_FOUNDER"
                            ELSE IF _paused THEN "EnforcedPause"
                            ELSE "OK"
          /\ _paused' = IF last'.result = "OK" THEN TRUE ELSE _paused
    /\ last'.op = "unpause" =>
          /\ last'.result = IF last'.caller # founder THEN "NOT_FOUNDER"
                            ELSE IF ~_paused THEN "ExpectedPause"
                            ELSE "OK"
          /\ _paused' = IF last'.result = "OK" THEN FALSE ELSE _paused
    /\ last'.op \notin {"pause", "unpause"} =>
          _paused' = IF ResumeStep /\ Rejected(last'.result)
                     THEN saved._paused
                     ELSE _paused

\* C18: the contract starts active; pause() by the founder pauses an active
\* contract and unpause() by the founder unpauses a paused one; by another
\* caller either fails with NOT_FOUNDER and changes nothing; pause() while
\* paused and unpause() while active change nothing; no other call changes
\* the flag (a sellFair that fails at its payout puts back the flag it began
\* with, undoing a pause made inside the payout); and in every reachable
\* state the founder can move to the other lifecycle state.
C18_Lifecycle ==
    /\ ~_paused
    /\ []FounderCanToggle
    /\ [][LifecycleStep]_vars

\* C18's case: the founder's unpause() has succeeded, which it does only on a
\* contract the founder had paused, and the contract is active again.
C18_Witness ==
    /\ last.op = "unpause" /\ last.result = "OK" /\ last.caller = founder
    /\ ~_paused /\ pc = "idle"

\* The calls under whenNotPaused.
Gated == {"claim", "buyFair", "sellFair"}

\* The outcome of claim(proof) by c by the checks of its body, in their order.
ClaimOutcome(c, proof) ==
    IF claimed[c] THEN "ALREADY_CLAIMED"
    ELSE IF ~_verify(proof, c) THEN "INVALID_PROOF"
    ELSE IF totalSupply + USER_CUT + POOL_CUT > MAX_SUPPLY THEN "MAX_SUPPLY"
    ELSE "OK"

\* The outcome of a gated call by its body, were the contract active.
GatedOutcome(call) ==
    CASE call.op = "claim" -> ClaimOutcome(call.caller, call.args[1])
      [] call.op = "buyFair" -> BuyOutcome(call.args[1], call.args[2], call.args[3])
      [] call.op = "sellFair" ->
            SellOutcome(call.caller, call.args[1], call.args[2], call.args[3])

\* A claim, buyFair or sellFair made while the contract is paused fails and
\* changes no state; one made while it is active (after an unpause as well)
\* and outside a payout ends as the checks of its body decide.
GatedCallStep ==
    (last'.op \in Gated /\ ~ResumeStep) =>
       /\ _paused => (Rejected(last'.result) /\ SnapshotNext = Snapshot)
       /\ (_paused /\ ~_locked) => last'.result = "EnforcedPause"
       /\ (~_paused /\ ~_locked) => last'.result = GatedOutcome(last')

\* C19 as stated: a claim, buyFair or sellFair made while paused fails and
\* changes no state, one made while active succeeds under its normal
\* preconditions, and none completes successfully in a paused contract.
C19_NoGatedCallCompletesPaused ==
    [][ /\ GatedCallStep
        /\ (last'.op \in Gated /\ last'.result = "OK") => ~_paused' ]_vars

\* C19, amended: a claim, buyFair or sellFair made while paused fails and
\* changes no state, one made while active succeeds under its normal
\* preconditions, and none begins in a paused contract: a claim or buyFair
\* never completes paused, and a sellFair completes paused only if it began
\* active and the contract was paused from inside its payout.
C19_NoGatedCallBeginsPaused ==
    [][ /\ GatedCallStep
        /\ (last'.op \in Gated /\ last'.result \in {"OK", "PENDING"} /\ ~ResumeStep) =>
              (~_paused /\ ~_paused')
        /\ (ResumeStep /\ last'.result = "OK") =>
              /\ ~saved._paused
              /\ _paused' = _paused
              /\ _paused => frame.nested > 0 ]_vars

\* C19's case: on a paused contract an address that has not claimed presents
\* its valid proof and is refused.
C19_Witness ==
    /\ _paused /\ pc = "idle"
    /\ last.op = "claim" /\ last.result = "EnforcedPause"
    /\ ClaimOutcome(last.caller, last.args[1]) = "OK"

\* The calls that are not under whenNotPaused and move tokens, allowances or
\* value.
NotGated == {"approve", "transfer", "transferFrom", "donate", "receive"}

\* msg.value of a call.
ValueOf(call) ==
    CASE call.op = "donate" -> call.args[2]
      [] call.op = "buyFair" -> call.args[3]
      [] call.op = "receive" -> call.args[1]
      [] OTHER -> 0

\* The body of a call that is not gated, run on context s.
RunNotGated(call, s) ==
    CASE call.op = "approve" -> approve(s, call.caller, call.args[1], call.args[2])
      [] call.op = "transfer" -> transfer(s, call.caller, call.args[1], call.args[2])
      [] call.op = "transferFrom" ->
            transferFrom(s, call.caller, call.args[1], call.args[2], call.args[3])
      [] call.op = "donate" -> donate(s, call.caller, call.args[1], call.args[2])
      [] call.op = "receive" -> receive(s, call.caller, call.args[1])

\* The storage of context s.
StorageOf(s) == [f \in DOMAIN Snapshot |-> s[f]]

\* C20: approve, transfer, transferFrom, donate and receive are not gated by
\* pause: each such call ends exactly as the same call would have ended on
\* the same storage with the pause flag the other way (same outcome, same
\* writes, same records), and leaves the pause flag alone.
C20_PauseDoesNotGate ==
    [][ (last'.op \in NotGated /\ ~ResumeStep) =>
          LET entry == Enter(ValueOf(last'))
              other == RunNotGated(last', [entry EXCEPT !._paused = ~_paused])
          IN  /\ last'.result = other.result
              /\ _paused' = _paused
              /\ ~other.reverted =>
                    /\ SnapshotNext = [StorageOf(other) EXCEPT !._paused = _paused]
                    /\ events' = other.events
              /\ other.reverted => SnapshotNext = Snapshot ]_vars

\* C20's case: on a paused contract a holder has donated tokens and value to
\* the pool, and the reserves have taken them in.
C20_Witness ==
    /\ _paused /\ pc = "idle"
    /\ last.op = "donate" /\ last.result = "OK"
    /\ last.args[1] > 0
    /\ reserveFair = 5 * WAD + last.args[1]
    /\ reserveEth = last.args[2]

\* The call of the step is made as a transaction, not from inside a payout.
TopLevel == pc = "idle"

\* C21: donate(assetAmount) with value v, made as a transaction, fails with
\* DONATE_ZERO iff both are 0, else with BALANCE if the caller holds less
\* than assetAmount, and fails keeping nothing; otherwise it moves
\* assetAmount from the caller to the pool, keeps v, pays nothing out, leaves
\* the reserves equal to (balance of the pool, native balance), which is
\* (assetAmount, v) more than before when they were in sync, and emits
\* Donation(donor, assetAmount, v).
C21_DonateEffect ==
    [][ (last'.op = "donate" /\ TopLevel) =>
          LET donor == last'.caller
              assetAmount == last'.args[1]
              v == last'.args[2]
          IN  /\ last'.result =
                    IF assetAmount = 0 /\ v = 0 THEN "DONATE_ZERO"
                    ELSE IF _balances[donor] < assetAmount THEN "BALANCE"
                    ELSE "OK"
              /\ Rejected(last'.result) => SnapshotNext = Snapshot
              /\ last'.result = "OK" =>
                    /\ _balances' = [_balances EXCEPT
                                        ![donor] = @ - assetAmount,
                                        ![THIS] = @ + assetAmount]
                    /\ ethBalance' = ethBalance + v
                    /\ reserveFair' = _balances'[THIS]
                    /\ reserveEth' = ethBalance'
                    /\ (reserveFair = _balances[THIS] /\ reserveEth = ethBalance) =>
                          (reserveFair' = reserveFair + assetAmount /\
                           reserveEth' = reserveEth + v)
                    /\ UNCHANGED << totalSupply, _allowances, claimed, _paused, _locked >>
                    /\ events'[Len(events')] = << "Donation", donor, assetAmount, v >> ]_vars

\* C21's case: a holder has donated 50 tokens together with WAD of value to
\* the pool its claim created.
C21_Witness ==
    /\ last.op = "donate" /\ last.result = "OK"
    /\ last.args = << 50 * WAD, WAD >>
    /\ _balances[last.caller] = 45 * WAD
    /\ reserveFair = 55 * WAD /\ reserveEth = WAD

\* C22: a bare receipt of value of any amount, 0 included, paused or not,
\* made as a transaction, succeeds, sets the reserves to (balance of the
\* pool, native balance before + amount), emits EthReceived(sender, amount)
\* iff amount > 0 and then Sync, and changes no token balance.
C22_ReceiveEffect ==
    [][ (last'.op = "receive" /\ TopLevel) =>
          LET sender == last'.caller
              amount == last'.args[1]
              sync == << "Sync", _balances[THIS], ethBalance + amount >>
          IN  /\ last'.result = "OK"
              /\ _balances' = _balances
              /\ ethBalance' = ethBalance + amount
              /\ reserveEth' = ethBalance + amount
              /\ reserveFair' = _balances[THIS]
              /\ events' = IF amount > 0
                           THEN << << "EthReceived", sender, amount >>, sync >>
                           ELSE << sync >>
              /\ UNCHANGED << totalSupply, _allowances, claimed, _paused, _locked >> ]_vars

\* C22's case: a paused contract has received a bare call with no value and
\* has logged a Sync and nothing else.
C22_Witness ==
    /\ _paused /\ pc = "idle"
    /\ last.op = "receive" /\ last.result = "OK" /\ last.args[1] = 0
    /\ events = << << "Sync", reserveFair, reserveEth >> >>

\* C23: transfer(to, amount) by from fails with ZERO_TO if to is the zero
\* address, whatever the balance, else with BALANCE if from holds less than
\* amount; otherwise from has amount less and to amount more in one step,
\* with totalSupply, every other balance and every allowance unchanged, and
\* Transfer(from, to, amount) is emitted.
C23_TransferEffect ==
    [][ (last'.op = "transfer" /\ ~ResumeStep) =>
          LET from == last'.caller
              to == last'.args[1]
              amount == last'.args[2]
              debited == [_balances EXCEPT ![from] = @ - amount]
          IN  /\ last'.result = IF to = ZERO THEN "ZERO_TO"
                                ELSE IF _balances[from] < amount THEN "BALANCE"
                                ELSE "OK"
              /\ Rejected(last'.result) => SnapshotNext = Snapshot
              /\ last'.result = "OK" =>
                    /\ _balances' = [debited EXCEPT ![to] = @ + amount]
                    /\ SumOver(_balances', Addr) = SumOver(_balances, Addr)
                    /\ UNCHANGED << totalSupply, _allowances, claimed, reserveFair,
                                    reserveEth, ethBalance, _paused, _locked >>
                    /\ events'[Len(events')] = << "Transfer", from, to, amount >> ]_vars

\* C23's case: a caller without the tokens transfers to the zero address and
\* is told ZERO_TO.
C23_Witness ==
    /\ last.op = "transfer" /\ last.result = "ZERO_TO"
    /\ last.args[1] = ZERO
    /\ _balances[last.caller] < last.args[2]

\* C24: approve(spender, amount) fails with ZERO_SPENDER and changes nothing
\* if spender is the zero address; otherwise the caller's allowance for
\* spender is exactly amount, whatever it was, every other allowance and
\* every balance is unchanged, and Approval(caller, spender, amount) is
\* emitted.
C24_ApproveEffect ==
    [][ (last'.op = "approve" /\ ~ResumeStep) =>
          LET owner == last'.caller
              spender == last'.args[1]
              amount == last'.args[2]
          IN  /\ last'.result = IF spender = ZERO THEN "ZERO_SPENDER" ELSE "OK"
              /\ Rejected(last'.result) => SnapshotNext = Snapshot
              /\ last'.result = "OK" =>
                    /\ _allowances' = [_allowances EXCEPT ![owner][spender] = amount]
                    /\ UNCHANGED << _balances, totalSupply, claimed, reserveFair,
                                    reserveEth, ethBalance, _paused, _locked >>
                    /\ events'[Len(events')] = << "Approval", owner, spender, amount >> ]_vars

\* C24's case: a holder of tokens has approved a spender, and the allowance
\* is the amount approved.
C24_Witness ==
    /\ last.op = "approve" /\ last.result = "OK"
    /\ _allowances[last.caller][last.args[1]] = last.args[2]
    /\ last.args[2] > 0 /\ _balances[last.caller] > 0

\* The step undoes a suspended sellFair, and with it the calls made from
\* inside its payout.
UndoStep == ResumeStep /\ Rejected(last'.result)

\* An allowance grows only by the owner's approve for that spender, to the
\* amount approved.
AllowanceGrowsByApprove ==
    \A owner \in Addr, spender \in Addr :
       _allowances'[owner][spender] > _allowances[owner][spender] =>
          /\ last'.op = "approve" /\ last'.result = "OK"
          /\ last'.caller = owner /\ last'.args[1] = spender
          /\ _allowances'[owner][spender] = last'.args[2]

\* Tokens leave a user's account by another caller's call only through a
\* transferFrom, which takes as much off that caller's allowance.
SpenderMovesWithinAllowance ==
    \A owner \in Users :
       (_balances'[owner] < _balances[owner] /\ last'.caller # owner) =>
          /\ last'.op = "transferFrom" /\ last'.result = "OK"
          /\ last'.args[1] = owner
          /\ _balances[owner] - _balances'[owner] = last'.args[3]
          /\ _allowances[owner][last'.caller] - _allowances'[owner][last'.caller]
                = last'.args[3]
          /\ _allowances'[owner][last'.caller] >= 0

\* C25: transferFrom(from, to, amount) by spender fails with ALLOWANCE iff
\* the allowance of from for spender is less than amount, before the
\* recipient and the balance are looked at; else it fails as the inner
\* transfer does, the allowance not decreased; otherwise the allowance is
\* amount less, whatever it was, and amount has moved from from to to.  The
\* total a spender moves out of an owner's account stays within the total
\* approved, step by step: an allowance grows only by the owner's approve, by
\* no more than the amount approved, and every token a spender takes out of
\* an owner's account comes off the allowance.
C25_TransferFromWithinAllowance ==
    [][ /\ (last'.op = "transferFrom" /\ ~ResumeStep) =>
              LET spender == last'.caller
                  from == last'.args[1]
                  to == last'.args[2]
                  amount == last'.args[3]
                  debited == [_balances EXCEPT ![from] = @ - amount]
              IN  /\ last'.result =
                        IF _allowances[from][spender] < amount THEN "ALLOWANCE"
                        ELSE IF to = ZERO THEN "ZERO_TO"
                        ELSE IF _balances[from] < amount THEN "BALANCE"
                        ELSE "OK"
                  /\ Rejected(last'.result) => SnapshotNext = Snapshot
                  /\ last'.result = "OK" =>
                        /\ _allowances' = [_allowances EXCEPT
                                               ![from][spender] = @ - amount]
                        /\ _balances' = [debited EXCEPT ![to] = @ + amount]
                        /\ UNCHANGED << totalSupply, claimed, reserveFair,
                                        reserveEth, ethBalance, _paused, _locked >>
                        /\ events'[Len(events')] = << "Transfer", from, to, amount >>
        /\ ~UndoStep => (AllowanceGrowsByApprove /\ SpenderMovesWithinAllowance) ]_vars

\* C25's case: a spender has moved 10 tokens out of an owner's account on an
\* allowance of 50 tokens, and 40 tokens of allowance are left.
C25_Witness ==
    /\ last.op = "transferFrom" /\ last.result = "OK"
    /\ last.args[3] = 10 * WAD
    /\ last.args[1] # last.caller
    /\ _allowances[last.args[1]][last.caller] = 40 * WAD
    /\ _balances[last.args[1]] = 85 * WAD

\* C26: the lock is free whenever no sellFair is suspended at its payout,
\* that is after every claim, donate, buyFair, sellFair and receive has
\* returned, by success or by failure; and no such call made as a transaction
\* fails with REENTRANCY.
C26_LockReleased ==
    /\ [](pc = "idle" => ~_locked)
    /\ [][ /\ (last'.op \in Guarded /\ pc' = "idle") => ~_locked'
           /\ (last'.op \in Guarded /\ TopLevel) => last'.result # "REENTRANCY" ]_vars

\* C26's case: a sellFair has failed at its payout, after a claim and a
\* receipt of value had succeeded, and the lock is free.
C26_Witness ==
    /\ pc = "idle" /\ ~_locked
    /\ last.op = "sellFair" /\ last.result = "ETH_SEND_FAIL"
    /\ totalSupply > 0 /\ ethBalance > 0

\* The contract after A has claimed and then donated 50 tokens with WAD of
\* value.
AfterClaimAndDonation ==
    /\ pc = "idle"
    /\ last = [op |-> "donate", caller |-> "A", args |-> << 50 * WAD, WAD >>,
               result |-> "OK"]
    /\ totalSupply = 100 * WAD
    /\ _balances["A"] = 45 * WAD /\ _balances["B"] = 0
    /\ ethBalance = WAD /\ ~_paused

\* B buys with WAD of value, no minimum and a live deadline.
ScenarioBuy ==
    /\ last'.op = "buyFair" /\ last'.caller = "B"
    /\ last'.args = << 0, BlockTime, WAD >>

\* C27 as stated: after A claims and donates 50 tokens with 1 unit of value, a
\* buy by B with 1 unit of value pays B 25 tokens and leaves reserves (25, 2).
C27_ScenarioBuyPays25 ==
    [][ (AfterClaimAndDonation /\ ScenarioBuy) =>
          /\ last'.result = "OK"
          /\ _balances'["B"] = 25 * WAD
          /\ reserveFair' = 25 * WAD
          /\ reserveEth' = 2 * WAD ]_vars

\* C27, amended: after A claims and donates 50 tokens with 1 unit of value
\* the pool holds 55 tokens, the 5 of the claim included, so a buy by B with
\* 1 unit of value pays B floor(55 * 1 / (1 + 1)) = 27.5 tokens and leaves
\* reserves (27.5, 2).
C27_ScenarioBuyPaysHalfOf55 ==
    [][ (AfterClaimAndDonation /\ ScenarioBuy) =>
          /\ reserveFair = 55 * WAD /\ reserveEth = WAD
          /\ last'.result = "OK"
          /\ _balances'["B"] = (55 * WAD) \div 2
          /\ reserveFair' = 55 * WAD - (55 * WAD) \div 2
          /\ reserveEth' = 2 * WAD ]_vars

\* C27's case: B has bought in the scenario.
C27_Witness ==
    /\ pc = "idle"
    /\ last = [op |-> "buyFair", caller |-> "B", args |-> << 0, BlockTime, WAD >>,
               result |-> "OK"]
    /\ _balances["A"] = 45 * WAD
    /\ _balances["B"] = (55 * WAD) \div 2
    /\ reserveFair = 55 * WAD - (55 * WAD) \div 2
    /\ reserveEth = 2 * WAD /\ ethBalance = 2 * WAD

\* The pool holds 55 tokens and 2 WAD of value, cached and actual, and B
\* holds 10 tokens.
PoolSeeded ==
    /\ pc = "idle" /\ ~_paused
    /\ reserveFair = 55 * WAD /\ _balances[THIS] = 55 * WAD
    /\ reserveEth = 2 * WAD /\ ethBalance = 2 * WAD
    /\ _balances["B"] = 10 * WAD

\* B sells its 10 tokens, no minimum and a live deadline.
ScenarioSell ==
    /\ last'.op = "sellFair" /\ last'.caller = "B"
    /\ last'.args = << 10 * WAD, 0, BlockTime >>

\* The sell of the scenario returns OK.
ScenarioSellDone ==
    /\ pc = "payout" /\ pc' = "idle" /\ last'.result = "OK"
    /\ frame.seller = "B" /\ frame.fairAmount = 10 * WAD
    /\ saved.reserveFair = 55 * WAD /\ saved.reserveEth = 2 * WAD
    /\ saved._balances["B"] = 10 * WAD

\* The sell of the scenario takes fee, prices amountAfterFee and, when it
\* returns OK, has paid fee to the founder.
ScenarioSellTakes(fee, amountAfterFee) ==
    /\ (PoolSeeded /\ ScenarioSell) =>
          /\ pc' = "payout"
          /\ frame'.fee = fee
          /\ frame'.ethOut = _getAmountOut(amountAfterFee, 55 * WAD, 2 * WAD)
    /\ ScenarioSellDone =>
          /\ _balances'[founder] = saved._balances[founder] + fee
          /\ reserveFair' = 55 * WAD + amountAfterFee
          /\ reserveEth' = 2 * WAD - _getAmountOut(amountAfterFee, 55 * WAD, 2 * WAD)

\* C28 as stated: with reserves (55, 2) and a seller of 10 tokens, the fee is
\* forced to 1 token, 9 tokens are priced by quoteOut(9, 55, 2), and the
\* founder's balance increases by exactly 1 token.
C28_ScenarioSellFeeOne ==
    [][ScenarioSellTakes(WAD, 9 * WAD)]_vars

\* C28, amended: with reserves (55, 2) and a seller of 10 tokens, the fee is
\* one thousandth of the 10 tokens, a hundredth of a token, which the floor
\* of 1 base unit does not raise; the remaining 9.99 tokens are priced by
\* quoteOut(9.99, 55, 2), and the founder's balance increases by the fee.
C28_ScenarioSellFeeThousandth ==
    [][ /\ (10 * WAD) \div FEE_DENOMINATOR >= 1
        /\ ScenarioSellTakes((10 * WAD) \div FEE_DENOMINATOR,
                             10 * WAD - (10 * WAD) \div FEE_DENOMINATOR) ]_vars

\* C28's case: B has sold its 10 tokens into the pool of (55, 2) and the
\* founder holds the fee.
C28_Witness ==
    /\ pc = "idle"
    /\ last = [op |-> "sellFair", caller |-> "B",
               args |-> << 10 * WAD, 0, BlockTime >>, result |-> "OK"]
    /\ _balances["B"] = 0
    /\ _balances[founder] = (10 * WAD) \div FEE_DENOMINATOR
    /\ reserveFair = 65 * WAD - (10 * WAD) \div FEE_DENOMINATOR
    /\ reserveEth < 2 * WAD

\* C29: for every valid address, proof and root the front end's verifyProof
\* returns what the contract's check returns on the same bytes: the hash
\* chain of _verify from the leaf of the address, a sibling equal to the
\* running hash included, compared with the root; and with the contract's
\* own root, exactly _verify(proof, address).
C29_VerifyProofMirrorsVerify ==
    (last.op = "verifyProof" /\ validAddress(last.args[1])) =>
       LET address == last.args[1]
           proof == proofBytes(last.args[2])
           root == getBytes(last.args[3])
       IN  /\ last.result = (verifyFrom(proof, 1, keccakAddress(address)) = root)
           /\ root = merkleRoot => last.result = _verify(proof, address)

\* C29's case: verifyProof has accepted a proof whose sibling equals the
\* leaf of the address and is written in upper case.
C29_Witness ==
    /\ last.op = "verifyProof" /\ last.result = TRUE
    /\ validAddress(last.args[1])
    /\ Len(last.args[2]) = 1
    /\ getBytes(last.args[2][1]) = keccakAddress(last.args[1])
    /\ last.args[2][1] # hexlify(keccakAddress(last.args[1]))

\* The database holds the root and the claims of airdrop.json.
DbHoldsAirdrop ==
    /\ db.merkle_root = << airdropJson.merkleRoot >>
    /\ db.claims = {airdropJson.claims[e] : e \in 1..Len(airdropJson.claims)}

\* C30: when airdrop.json has been rebuilt with another root and the server
\* starts on the database seeded before, the database holds the new root and
\* the new claims after the start.
C30_RestartReseeds ==
    [][ ( /\ last'.op = "initDb" /\ last'.result = "OK"
          /\ db.merkle_root # << >>
          /\ airdropJson.exists
          /\ db.merkle_root # << airdropJson.merkleRoot >> )
        => DbHoldsAirdrop' ]_vars

\* The record an operation emits for itself, by its name.
OwnRecord(op) ==
    CASE op = "claim" -> "Claimed"
      [] op = "donate" -> "Donation"
      [] op = "buyFair" -> "Buy"
      [] op = "sellFair" -> "Sell"
      [] OTHER -> "EthReceived"

\* The positions of the Sync records in a transaction's records.
SyncsIn(log) == {i \in 1..Len(log) : log[i][1] = "Sync"}

\* C31: when a claim, donate, buyFair, sellFair or receive returns OK the
\* cached reserves are the pool's token balance and the contract's native
\* balance, a transfer to the pool made during the payout included; the
\* transaction's records hold exactly one Sync, with these values, and it
\* comes right before the operation's own Claimed, Donation, Buy or Sell
\* record, which is the last one (for receive the Sync itself is the last).
C31_SyncIsLastStateChange ==
    [][ (last'.op \in Guarded /\ last'.result = "OK") =>
          /\ reserveFair' = _balances'[THIS]
          /\ reserveEth' = ethBalance'
          /\ Cardinality(SyncsIn(events')) = 1
          /\ \A i \in SyncsIn(events') :
                /\ events'[i] = << "Sync", reserveFair', reserveEth' >>
                /\ IF last'.op = "receive"
                   THEN i = Len(events')
                   ELSE /\ i = Len(events') - 1
                        /\ events'[Len(events')][1] = OwnRecord(last'.op) ]_vars

\* C31's case: a sellFair has returned OK after its seller moved tokens to
\* the pool from inside the payout, and the reserves count them.
C31_Witness ==
    /\ pc = "idle"
    /\ last.op = "sellFair" /\ last.result = "OK"
    /\ last.args[1] # 10 * WAD
    /\ \E i \in 1..Len(events) : events[i] = << "Transfer", last.caller, THIS, 10 * WAD >>
    /\ reserveFair = _balances[THIS] /\ reserveFair > 15 * WAD

\* The addresses marked claimed.
Claimers == {a \in Addr : claimed[a]}

\* C32: in every reachable state totalSupply is CLAIM_AMOUNT (100 tokens)
\* times the number of addresses marked claimed, and no call other than claim
\* changes totalSupply.
C32_SupplyOnlyFromClaims ==
    /\ [](totalSupply = CLAIM_AMOUNT * Cardinality(Claimers))
    /\ [][ last'.op # "claim" => totalSupply' = totalSupply ]_vars

\* C32's case: two addresses have claimed and a donation of tokens and value
\* has followed.
C32_Witness ==
    /\ Cardinality(Claimers) = 2 /\ totalSupply = 2 * CLAIM_AMOUNT
    /\ last.op = "donate" /\ last.result = "OK"
    /\ last.args[1] > 0 /\ last.args[2] > 0

\* C33: between transactions the cached token reserve is at most the pool's
\* token balance; the pool has given no allowance to anyone, in any state;
\* and the pool's balance decreases only in a buyFair or a sellFair (there by
\* the undoing of a rejected sell), after which, if it returned OK, the
\* reserve is the balance again.
C33_ReserveNeverOverstates ==
    /\ [](pc = "idle" => reserveFair <= _balances[THIS])
    /\ [](\A s \in Addr : _allowances[THIS][s] = 0)
    /\ [][ _balances'[THIS] < _balances[THIS] =>
             /\ last'.op \in {"buyFair", "sellFair"}
             /\ last'.op = "sellFair" => UndoStep
             /\ last'.result = "OK" => reserveFair' = _balances'[THIS] ]_vars

\* C33's case: the pool holds more than its cached reserve, and a
\* transferFrom out of the pool has just been rejected for want of allowance.
C33_Witness ==
    /\ pc = "idle"
    /\ reserveFair < _balances[THIS]
    /\ last.op = "transferFrom" /\ last.args[1] = THIS
    /\ last.args[3] <= _balances[THIS]
    /\ last.result = "ALLOWANCE"

\* Once positive, the pool's token balance and the contract's native balance
\* stay positive.
ReservesStayPositive ==
    /\ _balances[THIS] > 0 => _balances'[THIS] > 0
    /\ ethBalance > 0 => ethBalance' > 0

\* C34 as stated: whenever reserveIn > 0, _getAmountOut(amountIn, reserveIn,
\* reserveOut) < reserveOut; and the pool's token balance and the contract's
\* native balance, once positive, stay positive.
C34_QuoteBelowReserveOut ==
    /\ []((last.op = "_getAmountOut" /\ last.args[2] > 0) =>
             last.result < last.args[3])
    /\ [][ReservesStayPositive]_vars

\* C34, amended: whenever reserveIn > 0 and reserveOut > 0,
\* _getAmountOut(amountIn, reserveIn, reserveOut) < reserveOut, and with
\* reserveOut = 0 it is 0, the whole (empty) reserve; and the pool's token
\* balance and the contract's native balance, once positive, stay positive.
C34_QuoteBelowPositiveReserveOut ==
    /\ []((last.op = "_getAmountOut" /\ last.args[2] > 0) =>
             IF last.args[3] > 0
             THEN last.result < last.args[3]
             ELSE last.result = 0)
    /\ [][ReservesStayPositive]_vars

\* C34's case: a sellFair has been paid out of the native balance and has
\* left some of it.
C34_Witness ==
    /\ pc = "idle"
    /\ last.op = "sellFair" /\ last.result = "OK"
    /\ \E i \in 1..Len(events) :
          /\ events[i][1] = "Sell" /\ events[i][5] > 0
          /\ ethBalance + events[i][5] = WAD
    /\ ethBalance > 0 /\ _balances[THIS] > 0

\* The step is a sellFair, made as a transaction, that got as far as pricing:
\* it was suspended at its payout or rejected by a check on ethOut.
PricedSellStep ==
    /\ TopLevel /\ last'.op = "sellFair"
    /\ last'.result \in {"PENDING", "NO_LIQUIDITY", "SLIPPAGE_EXCEEDED", "INSUFFICIENT_ETH"}

\* No sellFair fails with INSUFFICIENT_ETH, and a payout in flight was taken
\* out of what the contract held.
NeverInsufficientEth ==
    /\ last'.op = "sellFair" => last'.result # "INSUFFICIENT_ETH"
    /\ SuspendStep => frame'.ethOut <= ethBalance /\ ethBalance' = ethBalance - frame'.ethOut

\* C35 as stated: whenever a sellFair gets as far as pricing, ethOut is less
\* than reserveEth, which is at most the native balance; no sellFair fails
\* with INSUFFICIENT_ETH and none pays out more than the contract holds.
C35_EthOutBelowReserve ==
    [][ /\ PricedSellStep =>
              /\ sellEthOut(Enter(0), last'.args[1]) < reserveEth
              /\ reserveEth <= ethBalance
        /\ NeverInsufficientEth ]_vars

\* C35, amended: whenever a sellFair gets as far as pricing, ethOut is at
\* most reserveEth, and less when reserveEth is positive (ethOut is 0 when
\* reserveEth is 0), and reserveEth is at most the native balance; no sellFair
\* fails with INSUFFICIENT_ETH and none pays out more than the contract holds.
C35_EthOutWithinReserve ==
    [][ /\ PricedSellStep =>
              /\ sellEthOut(Enter(0), last'.args[1]) <= reserveEth
              /\ reserveEth > 0 => sellEthOut(Enter(0), last'.args[1]) < reserveEth
              /\ reserveEth = 0 => last'.result = "NO_LIQUIDITY"
              /\ reserveEth <= ethBalance
        /\ NeverInsufficientEth ]_vars

\* C35's case: a sellFair is at its payout, which took a part of the cached
\* reserve out of the native balance.
C35_Witness ==
    /\ pc = "payout"
    /\ frame.ethOut > 0 /\ frame.ethOut < reserveEth
    /\ ethBalance = reserveEth - frame.ethOut
    /\ frame.fairAmount > reserveFair

\* C36: a sellFair of 1 base unit never succeeds and never pays the founder:
\* its fee is the whole unit, so 0 is priced and, when the lock, the pause
\* gate, the deadline and the seller's balance let it get as far as pricing,
\* it fails with NO_LIQUIDITY whatever the reserves; and the fee of every
\* positive amount is at most the amount.
C36_OneUnitSellFails ==
    [][ /\ (last'.op = "sellFair" /\ last'.args[1] = 1) =>
              /\ sellFee(1) = 1
              /\ sellEthOut(Enter(0), 1) = 0
              /\ Rejected(last'.result)
              /\ SnapshotNext = Snapshot
              /\ ( /\ TopLevel /\ ~_paused
                    /\ BlockTime <= last'.args[3]
                    /\ _balances[last'.caller] >= 1 ) => last'.result = "NO_LIQUIDITY"
        /\ (last'.op = "sellFair" /\ last'.args[1] > 0) =>
              sellFee(last'.args[1]) <= last'.args[1]
        /\ SuspendStep => frame'.fee <= frame'.fairAmount ]_vars

\* C36's case: a sellFair of 1 base unit by a holder has failed with
\* NO_LIQUIDITY while both reserves were positive.
C36_Witness ==
    /\ pc = "idle"
    /\ last.op = "sellFair" /\ last.args[1] = 1
    /\ last.result = "NO_LIQUIDITY"
    /\ _balances[last.caller] >= 1
    /\ reserveFair > 0 /\ reserveEth > 0

\* C37: the native balance is 0 at construction and every call changes it by
\* exactly what the claim counts: a donate, buyFair or receive that returns
\* OK adds its msg.value; a sellFair takes ethOut out at its payout and, when
\* it returns OK, has taken exactly the ethOut of its Sell record; a rejected
\* call leaves the balance as it was (a sellFair rejected after its payout:
\* as it was when it began); every other call leaves it alone, so it
\* decreases in a sellFair only.  By induction the balance is the sum of the
\* values received minus the sum of the values paid out.
C37_NativeValueConservation ==
    /\ [](last.op = "constructor" => ethBalance = 0)
    /\ [][ /\ (TopLevel /\ last'.result = "OK") =>
                ethBalance' = ethBalance + ValueOf(last')
           /\ (TopLevel /\ Rejected(last'.result)) => ethBalance' = ethBalance
           /\ SuspendStep =>
                /\ frame'.ethOut > 0
                /\ ethBalance' = ethBalance - frame'.ethOut
           /\ NestedStep => ethBalance' = ethBalance
           /\ ResumeStep =>
                IF last'.result = "OK"
                THEN /\ ethBalance' = saved.ethBalance - frame.ethOut
                     /\ events'[Len(events')] =
                           << "Sell", frame.seller, frame.fairAmount, frame.fee, frame.ethOut >>
                ELSE ethBalance' = saved.ethBalance
           /\ ethBalance' < ethBalance => last'.op = "sellFair" /\ SuspendStep ]_vars

\* C37's case: value came in by a donation and by a bare receipt or a buy,
\* and a sellFair has paid a part of it out.
C37_Witness ==
    /\ pc = "idle"
    /\ last.op = "sellFair" /\ last.result = "OK"
    /\ events[Len(events)][1] = "Sell"
    /\ events[Len(events)][5] > 0
    /\ ethBalance = 2 * WAD - events[Len(events)][5]

\* C38: a transfer to oneself of at most one's balance returns OK and leaves
\* every balance and totalSupply as they were; a transferFrom with from = to,
\* within allowance and balance, returns OK, leaves every balance and
\* totalSupply as they were and takes amount off the spender's allowance,
\* no other allowance changing.
C38_SelfTransferKeepsBalances ==
    [][ /\ (last'.op = "transfer" /\ last'.args[1] = last'.caller) =>
              /\ last'.result = "OK" <=> last'.args[2] <= _balances[last'.caller]
              /\ _balances' = _balances
              /\ totalSupply' = totalSupply
              /\ _allowances' = _allowances
        /\ (last'.op = "transferFrom" /\ last'.args[1] = last'.args[2]) =>
              LET spender == last'.caller
                  from == last'.args[1]
                  amount == last'.args[3]
              IN  /\ last'.result = "OK" <=>
                        /\ amount <= _allowances[from][spender]
                        /\ amount <= _balances[from]
                  /\ _balances' = _balances
                  /\ totalSupply' = totalSupply
                  /\ _allowances' =
                        IF last'.result = "OK"
                        THEN [_allowances EXCEPT ![from][spender] = @ - amount]
                        ELSE _allowances ]_vars

\* C38's case: a spender has moved tokens from an account to the same
\* account, which holds what it held, and the allowance is smaller.
C38_Witness ==
    /\ last.op = "transferFrom" /\ last.result = "OK"
    /\ last.args[1] = last.args[2]
    /\ last.args[3] > 0
    /\ _balances[last.args[1]] = USER_CUT
    /\ _allowances[last.args[1]][last.caller] = 50 * WAD - last.args[3]

\* C39: after initDb has returned or thrown, the database holds the root row
\* together with every claim of the airdrop.json it was seeded from, or
\* neither; so a root row is never there with no claims.
C39_SeedingAllOrNothing ==
    /\ [](db.merkle_root # << >> => db.claims # {})
    /\ [][ (last'.op = "initDb" /\ db = EmptyDb /\ airdropJson.exists) =>
              DbHoldsAirdrop' \/ db' = EmptyDb ]_vars

\* The call is running; the call has ended.
FetchRunning == request.status \in {"attempt", "waiting"}
FetchEnded == request.status \in {"returned", "thrown"}

\* The attempts of the call that failed so far.
FailedAttempts == {k \in 1..Len(request.log) : request.log[k] # "ok"}

\* C40: a call of fetchWithRetry with maxRetries >= 1 makes at most
\* maxRetries attempts; it returns exactly when an attempt gets an ok
\* response, which is then the last attempt made; a response that is not ok,
\* a timeout and a network error each count as a failed attempt; the delay
\* after failed attempt i (from 0) is 2^i seconds, and there is none after
\* attempt maxRetries - 1; it throws exactly after maxRetries failed
\* attempts, and what it throws is the error of the last of them; and every
\* call ends.
C40_FetchWithRetry ==
    /\ []( request.maxRetries >= 1 =>
             /\ Len(request.log) <= request.maxRetries
             /\ \A k \in 1..Len(request.log) :
                   request.log[k] = "ok" =>
                      k = Len(request.log) /\ request.status = "returned"
             /\ request.status = "returned" =>
                   /\ request.log # << >>
                   /\ request.log[Len(request.log)] = "ok"
             /\ request.status = "thrown" <=>
                   Cardinality(FailedAttempts) = request.maxRetries
             /\ request.status = "thrown" =>
                   request.lastError =
                      [name |-> request.log[request.maxRetries],
                       attempt |-> request.maxRetries - 1]
             /\ request.status = "waiting" =>
                   /\ Len(request.log) < request.maxRetries
                   /\ request.delay = pow(2, Len(request.log) - 1) * 1000
             /\ Len(request.delays) =
                   IF request.status = "attempt"
                   THEN Len(request.log) ELSE Len(request.log) - 1
             /\ \A k \in 1..Len(request.delays) :
                   request.delays[k] = pow(2, k - 1) * 1000 )
    /\ (FetchRunning ~> FetchEnded)

\* C40's case: a call with maxRetries = 3 has thrown the error of its third
\* attempt after a response that was not ok, a timeout and a network error,
\* having waited 1 and 2 seconds.
C40_Witness ==
    /\ request.status = "thrown" /\ request.maxRetries = 3
    /\ request.log = << "notOk", "timeout", "networkError" >>
    /\ request.lastError = [name |-> "networkError", attempt |-> 2]
    /\ request.delays = << 1000, 2000 >>

====
